---- MODULE Spec2Model ----
(***************************************************************************)
(* Model of src/scheduler.py: the module-level scheduler state (_jobs,     *)
(* _scheduler_thread, _stop_event and the schedule library's job list),    *)
(* the worker thread's tick loop (_run_scheduler) and the calls a caller   *)
(* thread makes (start_scheduler_thread, stop_scheduler_thread, add_task,  *)
(* remove_task, list_tasks).                                               *)
(*                                                                         *)
(* Granularity.  The caller is one thread (the GUI's main thread): each    *)
(* call is one step, except stop_scheduler_thread, which blocks in         *)
(* join(timeout=5) while the worker runs.  A worker advances one           *)
(* statement of _run_scheduler at a time; inside schedule.run_pending it   *)
(* advances one job at a time, and a job's execution is in flight between  *)
(* its begin and its finish step.  The clock counts whole minutes.         *)
(*                                                                         *)
(* Spec and FairSpec take an execution and a call of list_tasks as one     *)
(* step.  ExecSpec follows _task_execution_function through its Gemini,    *)
(* mail and update steps (with gemini_client.py and email_sender.py);      *)
(* ListSpec follows list_tasks through its loop beside the worker.         *)
(*                                                                         *)
(* The components are followed on their own, each in a variable the        *)
(* scheduler's steps leave alone: ParseSpec (_parse_interval on interval   *)
(* texts), CaptureSpec (what a job keeps of the caller's task store),      *)
(* ClientSpec (gemini_client.py), SenderSpec (email_sender.py), ConfigSpec *)
(* (save_config and load_config of config_manager.py) and GuiSpec (the     *)
(* App of gui.py starting and stopping the scheduler with its enabled      *)
(* tasks).  StoreSpec follows the task functions of config_manager.py,     *)
(* called one after the other, with the file and the module's              *)
(* DEFAULT_CONFIG object; RaceSpec has the worker's                        *)
(* update_task_last_run_details beside the App's calls, each call a load   *)
(* step and a save step; MailSpec is the EmailSender that                  *)
(* _task_execution_function makes of the stored SMTP settings.             *)
(***************************************************************************)
EXTENDS Integers, Sequences, FiniteSets, TLC

\* ---------------------------------------------------------------- bounds
MaxCalls == 3       \* calls the caller thread makes
MaxTime == 2        \* last minute the clock reaches

\* ---------------------------------------------------------------- values
None == 0
NoId == "<no id>"
Threads == 1..MaxCalls               \* a call starts at most one thread
JobIds == 1..(MaxCalls + MaxCalls)   \* and creates at most two jobs

VARIABLES
    now,                \* datetime.datetime.now(), in minutes
    heap,               \* the live schedule.Job objects: id -> [tag, period, next_run]
    schedule_jobs,      \* schedule.jobs: the library's list of jobs
    _jobs,              \* scheduler._jobs
    _scheduler_thread,  \* scheduler._scheduler_thread: None or a thread
    _stop_event,        \* scheduler._stop_event: [id, flag]
    pc,                 \* each thread's position in _run_scheduler
    todo,               \* each thread's remaining due jobs inside run_pending
    cur,                \* each thread's job in execution, or None
    callerPc,           \* the caller thread: "idle" or "joining" (inside stop)
    call,               \* the call that returned in the last step, if one did
    ncalls,             \* the calls made so far
    signalled,          \* the workers a stop has signalled
    exec,               \* the call of _task_execution_function followed step by step
    listing,            \* the call of list_tasks followed step by step
    captured,           \* the caller's task store and what a scheduled job captured of it
    parsed,             \* an interval text and what _parse_interval made of it
    client,             \* a GeminiClient and its call of get_gemini_response
    sender,             \* an EmailSender and its call of send_email
    gui,                \* the App: the enabled flags of its tasks, and where a restart is
    config,             \* a configuration, the stored file, and what load_config returned
    manager             \* config_manager: DEFAULT_CONFIG, the file, and the calls under way

\* the state of the components that are followed on their own
components == <<captured, parsed, client, sender, gui, config, manager>>

vars == <<now, heap, schedule_jobs, _jobs, _scheduler_thread, _stop_event,
          pc, todo, cur, callerPc, call, ncalls, signalled, exec, listing,
          components>>

\* ------------------------------------------------- text (str) operations
\* A str is a sequence of one-character strings.
UpperChars == <<"A","B","C","D","E","F","G","H","I","J","K","L","M",
                "N","O","P","Q","R","S","T","U","V","W","X","Y","Z">>
LowerChars == <<"a","b","c","d","e","f","g","h","i","j","k","l","m",
                "n","o","p","q","r","s","t","u","v","w","x","y","z">>
DigitChars == <<"0","1","2","3","4","5","6","7","8","9">>
Whitespace == {" ", "\t", "\n"}

\* str.lower(), one character
LowerChar(c) ==
    IF \E i \in 1..Len(UpperChars) : UpperChars[i] = c
    THEN LowerChars[CHOOSE i \in 1..Len(UpperChars) : UpperChars[i] = c]
    ELSE c

\* str.lower()
Lower(s) == [i \in 1..Len(s) |-> LowerChar(s[i])]

\* str.split(): the maximal runs of non-whitespace characters, in order
RECURSIVE SplitFrom(_, _, _)
SplitFrom(s, i, word) ==
    IF i > Len(s)
    THEN IF word = <<>> THEN <<>> ELSE <<word>>
    ELSE IF s[i] \in Whitespace
         THEN IF word = <<>> THEN SplitFrom(s, i + 1, <<>>)
              ELSE <<word>> \o SplitFrom(s, i + 1, <<>>)
         ELSE SplitFrom(s, i + 1, Append(word, s[i]))

Split(s) == SplitFrom(s, 1, <<>>)

IsDigit(c) == \E i \in 1..Len(DigitChars) : DigitChars[i] = c
DigitValue(c) == (CHOOSE i \in 1..Len(DigitChars) : DigitChars[i] = c) - 1

RECURSIVE DigitsValue(_, _)
DigitsValue(s, acc) ==
    IF s = <<>> THEN acc ELSE DigitsValue(Tail(s), 10 * acc + DigitValue(Head(s)))

\* the digits of an int() literal: single underscores between digits are dropped
Digits(body) == SelectSeq(body, IsDigit)

\* int(tok) raises ValueError: tok is not an optional sign followed by digits,
\* which single underscores may separate
IntRaises(tok) ==
    LET body == IF tok # <<>> /\ Head(tok) \in {"+", "-"} THEN Tail(tok) ELSE tok
    IN  \/ body = <<>>
        \/ \E i \in 1..Len(body) : ~IsDigit(body[i]) /\ body[i] # "_"
        \/ ~IsDigit(body[1]) \/ ~IsDigit(body[Len(body)])
        \/ \E i \in 1..(Len(body) - 1) : body[i] = "_" /\ body[i + 1] = "_"

\* int(tok), when it does not raise
IntOf(tok) ==
    IF Head(tok) = "-" THEN 0 - DigitsValue(Digits(Tail(tok)), 0)
    ELSE IF Head(tok) = "+" THEN DigitsValue(Digits(Tail(tok)), 0)
    ELSE DigitsValue(Digits(tok), 0)

\* ------------------------------------------------------ _parse_interval
Minutes == <<"m","i","n","u","t","e","s">>
Hours == <<"h","o","u","r","s">>
Days == <<"d","a","y","s">>
Weeks == <<"w","e","e","k","s">>
Singular(u) == SubSeq(u, 1, Len(u) - 1)

\* a chain of tests that knows the plural words only
UnitOfPlural(unit) ==
    IF unit = Minutes THEN "minutes"
    ELSE IF unit = Hours THEN "hours"
    ELSE IF unit = Days THEN "days"
    ELSE IF unit = Weeks THEN "weeks"
    ELSE "none"

\* the unit the chain of elif tests selects, or None
UnitOf(unit) ==
    IF unit \in {Singular(Minutes), Minutes} THEN "minutes"
    ELSE IF unit \in {Singular(Hours), Hours} THEN "hours"
    ELSE IF unit \in {Singular(Days), Days} THEN "days"
    ELSE IF unit \in {Singular(Weeks), Weeks} THEN "weeks"
    ELSE "none"

\* what _parse_interval returns when it returns None
NoSetup == [interval |-> 0, unit |-> "none"]

\* _parse_interval(interval_str): None (NoSetup), or the configured job setup
\* [interval |-> N, unit |-> u] that .do() turns into a job
_parse_interval(interval_str) ==
    LET parts == Split(Lower(interval_str))
    IN  IF Len(parts) # 2 THEN NoSetup
        ELSE IF IntRaises(parts[1]) THEN NoSetup
        ELSE IF IntOf(parts[1]) <= 0 THEN NoSetup
        ELSE IF UnitOf(parts[2]) = "none" THEN NoSetup
        ELSE [interval |-> IntOf(parts[1]), unit |-> UnitOf(parts[2])]

\* the length of one unit of the schedule library, in minutes
UnitMinutes(unit) ==
    IF unit = "minutes" THEN 1
    ELSE IF unit = "hours" THEN 60
    ELSE IF unit = "days" THEN 1440
    ELSE 10080

\* a job's period (schedule.Job.period), in minutes
Period(setup) == setup.interval * UnitMinutes(setup.unit)

\* ------------------------------------------------------------ the inputs
I_1minute == <<"1"," ","m","i","n","u","t","e">>
I_2Minutes == <<"2"," ","M","i","n","u","t","e","s">>
I_1hour == <<"1"," ","h","o","u","r">>
I_0minutes == <<"0"," ","m","i","n","u","t","e","s">>
I_5seconds == <<"5"," ","s","e","c","o","n","d","s">>
I_blue == <<"e","v","e","r","y"," ","b","l","u","e"," ","m","o","o","n">>

TaskIds == {"a", "b"}

\* the task lists start_scheduler_thread is called with
TaskLists ==
    { << [id |-> "a", interval |-> I_1minute], [id |-> "b", interval |-> I_1minute] >>,
      << [id |-> "a", interval |-> I_blue], [id |-> "b", interval |-> I_2Minutes] >>,
      << [id |-> NoId, interval |-> I_5seconds], [id |-> NoId, interval |-> I_1hour] >> }

\* the intervals add_task is called with
AddIntervals == {I_1minute, I_0minutes}

\* ------------------------------------------------------- the job objects
Range(f) == {f[x] : x \in DOMAIN f}

\* the job objects something still refers to
Referenced(sj, js, td, cu) ==
    (Range(sj) \cup Range(js) \cup UNION {Range(td[w]) : w \in Threads}
        \cup Range(cu)) \ {None}

\* the heap without the objects nothing refers to any more
Collect(h, sj, js, td, cu) ==
    [j \in (DOMAIN h) \cap Referenced(sj, js, td, cu) |-> h[j]]

\* a job object that is not in use
NewJobId(h) == CHOOSE j \in JobIds \ DOMAIN h : \A k \in JobIds \ DOMAIN h : j <= k

\* the three structures add_task and the clears work on
Store(h, sj, js) == [heap |-> h, sj |-> sj, js |-> js, ret |-> "None"]

\* a first run that is due at once
FirstRunAtOnce(setup, t) == t

\* the next_run .do() gives a new job: one period after the call
FirstRun(setup, t) == t + Period(setup)

\* add_task(task_id, ..., interval_str, ...) at time t
add_task(st, task_id, interval_str, t) ==
    LET parsed_job == _parse_interval(interval_str)
    IN  IF parsed_job # NoSetup
        THEN LET j == NewJobId(st.heap)
                 job_instance == [tag |-> task_id,
                                  interval |-> parsed_job.interval,
                                  unit |-> parsed_job.unit,
                                  next_run |-> FirstRun(parsed_job, t)]
             IN  [heap |-> st.heap @@ (j :> job_instance),
                  sj |-> Append(st.sj, j),
                  js |-> Append(st.js, j),
                  ret |-> "True"]
        ELSE [st EXCEPT !.ret = "False"]

\* remove_task with schedule.clear() called without the tag
remove_task_clears_schedule(st, task_id) ==
    [st EXCEPT !.sj = <<>>,
               !.js = SelectSeq(st.js, LAMBDA j : st.heap[j].tag # task_id)]

\* remove_task(task_id): schedule.clear(task_id), then the filter of _jobs
remove_task(st, task_id) ==
    [st EXCEPT !.sj = SelectSeq(st.sj, LAMBDA j : st.heap[j].tag # task_id),
               !.js = SelectSeq(st.js, LAMBDA j : st.heap[j].tag # task_id)]

\* list_tasks(): the "id" of every entry, in the order of schedule.jobs
list_tasks == [i \in 1..Len(schedule_jobs) |-> heap[schedule_jobs[i]].tag]

\* task_config.get("id", f"task_{i+1}") of the i-th task (i counts from 1 here)
GeneratedId(i) == IF i = 1 THEN "task_1" ELSE IF i = 2 THEN "task_2" ELSE "task_n"
TaskIdOf(task_config, i) == IF task_config.id = NoId THEN GeneratedId(i) ELSE task_config.id

\* the for loop left at the first task add_task rejects
RECURSIVE ScheduleUntilRejected(_, _, _, _)
ScheduleUntilRejected(st, tasks_to_schedule, i, t) ==
    IF i > Len(tasks_to_schedule) THEN st
    ELSE LET st1 == add_task(st, TaskIdOf(tasks_to_schedule[i], i),
                             tasks_to_schedule[i].interval, t)
         IN  IF st1.ret = "False" THEN st1
             ELSE ScheduleUntilRejected(st1, tasks_to_schedule, i + 1, t)

\* the for loop of start_scheduler_thread, from the i-th task on
RECURSIVE ScheduleAll(_, _, _, _)
ScheduleAll(st, tasks_to_schedule, i, t) ==
    IF i > Len(tasks_to_schedule) THEN st
    ELSE ScheduleAll(add_task(st, TaskIdOf(tasks_to_schedule[i], i),
                              tasks_to_schedule[i].interval, t),
                     tasks_to_schedule, i + 1, t)

\* threading.Thread.is_alive()
is_alive(t) == pc[t] \notin {"unborn", "dead"}

\* `_scheduler_thread and _scheduler_thread.is_alive()`
SchedulerRunning == _scheduler_thread # None /\ is_alive(_scheduler_thread)

\* ------------------------------------------------------------------ Init
\* `call` is the call that returned in the step just taken, if one did: its
\* arguments, what list_tasks() listed before it, and how it returned (for
\* add_task the value returned, for stop_scheduler_thread the branch taken)
NoCall == [op |-> "none", id |-> "", tasks |-> <<>>, before |-> <<>>, ret |-> "None"]
Returned(op, id, tasks, ret) ==
    [op |-> op, id |-> id, tasks |-> tasks, before |-> list_tasks, ret |-> ret]

\* smtp_config before a task has passed one: no dict
NoConfig == [keys |-> {}, server |-> "", port |-> <<>>, user |-> "", password |-> ""]

\* _task_execution_function about to be entered: nothing called yet
ExecIdle ==
    [pc |-> "gemini", email_to |-> "", smtp_config |-> NoConfig, gemini |-> "none",
     response |-> <<>>, gemini_interaction_successful |-> FALSE,
     gemini_calls |-> 0, mail_calls |-> <<>>, mail |-> "none",
     update_calls |-> <<>>, update |-> "none"]

\* list_tasks not in progress
NotListing == [pc |-> "idle", i |-> 1, tasks_info |-> <<>>, seen |-> {}]

\* no job scheduled, no execution made
NoJob == [period |-> 0]

\* no task store followed
NoStore == [store |-> <<>>, job |-> NoJob, ran |-> NoJob]

\* a call that has not returned yet
Pending == [interval |-> 0, unit |-> "pending"]

\* no interval text followed
NoText == [interval_str |-> <<>>, ret |-> Pending]

\* no GeminiClient constructed
NoClient ==
    [pc |-> "new", api_key |-> "", model |-> FALSE, prompt |-> "",
     search_internet |-> FALSE, api_calls |-> 0, met |-> "nothing", ret |-> <<>>]

\* no EmailSender constructed
NoSender ==
    [pc |-> "new", requested |-> [use_tls |-> FALSE, use_ssl |-> FALSE],
     use_tls |-> FALSE, use_ssl |-> FALSE, settings |-> FALSE, body |-> FALSE,
     connections |-> <<>>, sends |-> 0, ret |-> "None",
     stored |-> [use_tls |-> FALSE, use_ssl |-> FALSE]]

\* the App with every task enabled, and no restart under way
NoGui == [pc |-> "idle", enabled |-> [id \in TaskIds |-> TRUE]]

\* DEFAULT_CONFIG.  A dict is a record of its values with the set of the keys
\* it holds; a key it does not hold has the empty value of its kind.
SmtpSubKeys == {"server", "port", "user", "password", "use_tls", "use_ssl"}
DefaultSmtp ==
    [keys |-> SmtpSubKeys, server |-> "smtp.example.com", port |-> 587,
     user |-> "user@example.com", password |-> "", use_tls |-> TRUE, use_ssl |-> FALSE]
DefaultKeys == {"gemini_api_key", "recipient_email", "smtp_settings", "scheduled_tasks"}
DEFAULT_CONFIG ==
    [keys |-> DefaultKeys, gemini_api_key |-> "", recipient_email |-> "",
     smtp_settings |-> DefaultSmtp, scheduled_tasks |-> <<>>]

\* no file stored
NoFile == [keys |-> {}]

\* no configuration followed
NoConfigFile == [pc |-> "idle", c |-> DEFAULT_CONFIG, file |-> NoFile, before |-> NoFile,
                 loaded |-> DEFAULT_CONFIG]

\* config_manager with no call under way.  The threads that call it, a task
\* dict that holds nothing, a thread outside every function, and no return
Procs == {"caller", "worker"}
NoTask ==
    [keys |-> {}, id |-> "", prompt |-> "", interval |-> "", search_internet |-> FALSE,
     enabled |-> FALSE, last_response |-> "", last_sent_time |-> ""]
Outside ==
    [pc |-> "outside", op |-> "", task_id |-> "", task_data |-> NoTask,
     config |-> DEFAULT_CONFIG, shared |-> {}, existed |-> FALSE, before |-> NoFile]
NoReturn ==
    [op |-> "", th |-> "", task_id |-> "", task_data |-> NoTask, ret |-> FALSE,
     existed |-> FALSE, before |-> NoFile, loaded |-> DEFAULT_CONFIG,
     stored |-> NoFile, fresh |-> DEFAULT_CONFIG]
NoManager ==
    [exists |-> FALSE, file |-> NoFile, defaults |-> DEFAULT_CONFIG,
     proc |-> [th \in Procs |-> Outside], calls |-> 0, last |-> NoReturn]

\* the scheduler with nothing scheduled and nothing running
SchedulerInit ==
    /\ exec = ExecIdle
    /\ listing = NotListing
    /\ now = 0
    /\ heap = <<>>
    /\ schedule_jobs = <<>>
    /\ _jobs = <<>>
    /\ _scheduler_thread = None
    /\ _stop_event = [id |-> 0, flag |-> FALSE]
    /\ pc = [t \in Threads |-> "unborn"]
    /\ todo = [t \in Threads |-> <<>>]
    /\ cur = [t \in Threads |-> None]
    /\ callerPc = "idle"
    /\ call = NoCall
    /\ ncalls = 0
    /\ signalled = {}

Init ==
    /\ SchedulerInit
    /\ captured = NoStore
    /\ parsed = NoText
    /\ client = NoClient
    /\ sender = NoSender
    /\ gui = NoGui
    /\ config = NoConfigFile
    /\ manager = NoManager

\* ------------------------------------------------- the caller's calls
\* start_scheduler_thread creating the fresh event before the is_alive test
StartAlreadyRunningFreshEvent ==
    /\ callerPc = "idle"
    /\ ncalls < MaxCalls
    /\ ncalls' = ncalls + 1
    /\ SchedulerRunning
    /\ _stop_event' = [id |-> _stop_event.id + 1, flag |-> FALSE]
    /\ \E tasks \in TaskLists : call' = Returned("start", "", tasks, "None")
    /\ UNCHANGED <<components, exec, listing, now, heap, schedule_jobs, _jobs, _scheduler_thread,
                   pc, todo, cur, callerPc, signalled>>

\* start_scheduler_thread while the worker is alive: "already running", return
StartAlreadyRunning ==
    /\ callerPc = "idle"
    /\ ncalls < MaxCalls
    /\ ncalls' = ncalls + 1
    /\ SchedulerRunning
    /\ \E tasks \in TaskLists : call' = Returned("start", "", tasks, "None")
    /\ UNCHANGED <<components, exec, listing, now, heap, schedule_jobs, _jobs, _scheduler_thread, _stop_event,
                   pc, todo, cur, callerPc, signalled>>

\* a start that leaves the jobs it finds
NotCleared(h, sj, js, td, cu) == Store(h, sj, js)

\* schedule.clear() and _jobs.clear() of start_scheduler_thread
Cleared(h, sj, js, td, cu) == Store(Collect(h, <<>>, <<>>, td, cu), <<>>, <<>>)

\* start_scheduler_thread otherwise: a fresh event, both job lists cleared,
\* add_task for every task, then a new thread, started
StartThread(tasks) ==
    /\ callerPc = "idle"
    /\ ncalls < MaxCalls
    /\ ncalls' = ncalls + 1
    /\ ~SchedulerRunning
    /\ LET t == CHOOSE u \in Threads :
                    pc[u] = "unborn" /\ \A v \in Threads : pc[v] = "unborn" => u <= v
       IN  /\ LET st == ScheduleAll(Cleared(heap, schedule_jobs, _jobs, todo, cur), tasks, 1, now)
              IN  /\ heap' = st.heap
                  /\ schedule_jobs' = st.sj
                  /\ _jobs' = st.js
           /\ _stop_event' = [id |-> _stop_event.id + 1, flag |-> FALSE]
           /\ _scheduler_thread' = t
           /\ pc' = [pc EXCEPT ![t] = "start"]
           /\ call' = Returned("start", "", tasks, "None")
    /\ UNCHANGED <<exec, listing, now, todo, cur, callerPc, signalled>>

\* start_scheduler_thread called with one of the task lists
StartScheduler ==
    /\ \E tasks \in TaskLists : StartThread(tasks)
    /\ UNCHANGED components

\* stop_scheduler_thread with the two clears outside the if
StopNotRunningClearsJobs ==
    /\ callerPc = "idle"
    /\ ncalls < MaxCalls
    /\ ncalls' = ncalls + 1
    /\ ~SchedulerRunning
    /\ schedule_jobs' = <<>>
    /\ _jobs' = <<>>
    /\ heap' = Collect(heap, <<>>, <<>>, todo, cur)
    /\ call' = Returned("stop", "", <<>>, "not running")
    /\ UNCHANGED <<components, exec, listing, now, _scheduler_thread, _stop_event,
                   pc, todo, cur, callerPc, signalled>>

\* stop_scheduler_thread while no worker is alive: "not running"
StopNotRunning ==
    /\ callerPc = "idle"
    /\ ncalls < MaxCalls
    /\ ncalls' = ncalls + 1
    /\ ~SchedulerRunning
    /\ call' = Returned("stop", "", <<>>, "not running")
    /\ UNCHANGED <<components, exec, listing, now, heap, schedule_jobs, _jobs, _scheduler_thread, _stop_event,
                   pc, todo, cur, callerPc, signalled>>

\* stop_scheduler_thread while the worker is alive: set the event, enter join
StopSignal ==
    /\ callerPc = "idle"
    /\ ncalls < MaxCalls
    /\ ncalls' = ncalls + 1
    /\ SchedulerRunning
    /\ _stop_event' = [_stop_event EXCEPT !.flag = TRUE]
    /\ signalled' = signalled \cup {_scheduler_thread}
    /\ callerPc' = "joining"
    /\ call' = NoCall
    /\ UNCHANGED <<components, exec, listing, now, heap, schedule_jobs, _jobs, _scheduler_thread, pc, todo, cur>>

\* what follows the join, with the clears only when the thread has stopped
StopReturnClearsWhenStopped(how) ==
    /\ _scheduler_thread' = None
    /\ schedule_jobs' = IF how = "stopped" THEN <<>> ELSE schedule_jobs
    /\ _jobs' = IF how = "stopped" THEN <<>> ELSE _jobs
    /\ heap' = Collect(heap, schedule_jobs', _jobs', todo, cur)
    /\ callerPc' = "idle"
    /\ call' = Returned("stop", "", <<>>, how)
    /\ UNCHANGED <<components, exec, listing, now, _stop_event, pc, todo, cur, ncalls, signalled>>

\* what follows the join: the handle dropped, both job lists cleared
StopReturn(how) ==
    /\ _scheduler_thread' = None
    /\ schedule_jobs' = <<>>
    /\ _jobs' = <<>>
    /\ heap' = Collect(heap, <<>>, <<>>, todo, cur)
    /\ callerPc' = "idle"
    /\ call' = Returned("stop", "", <<>>, how)
    /\ UNCHANGED <<components, exec, listing, now, _stop_event, pc, todo, cur, ncalls, signalled>>

\* join(timeout=5) returns because the worker has terminated
StopJoined ==
    /\ callerPc = "joining"
    /\ ~is_alive(_scheduler_thread)
    /\ StopReturn("stopped")

\* The worker outlasts the 5 seconds of the join: executions keep it, or it
\* loops on an event that is not set.  (A worker whose next test finds the
\* event set is gone within the second it sleeps.)
OutlastsJoin(t) ==
    \/ pc[t] = "executing"
    \/ pc[t] \in {"check", "run_pending"} /\ ~_stop_event.flag

\* join(timeout=5) returns because 5 seconds have passed with the worker alive
StopTimedOut ==
    /\ callerPc = "joining"
    /\ is_alive(_scheduler_thread)
    /\ OutlastsJoin(_scheduler_thread)
    /\ StopReturn("timed out")

\* add_task(task_id, ..., interval_str, ...)
AddTask ==
    /\ callerPc = "idle"
    /\ ncalls < MaxCalls
    /\ ncalls' = ncalls + 1
    /\ \E task_id \in TaskIds, interval_str \in AddIntervals :
        LET st == add_task(Store(heap, schedule_jobs, _jobs), task_id, interval_str, now)
        IN  /\ heap' = st.heap
            /\ schedule_jobs' = st.sj
            /\ _jobs' = st.js
            /\ call' = Returned("add_task", task_id, <<>>, st.ret)
    /\ UNCHANGED <<components, exec, listing, now, _scheduler_thread, _stop_event, pc, todo, cur, callerPc,
                   signalled>>

\* remove_task(task_id)
RemoveTask ==
    /\ callerPc = "idle"
    /\ ncalls < MaxCalls
    /\ ncalls' = ncalls + 1
    /\ \E task_id \in TaskIds :
        LET st == remove_task(Store(heap, schedule_jobs, _jobs), task_id)
        IN  /\ schedule_jobs' = st.sj
            /\ _jobs' = st.js
            /\ heap' = Collect(heap, st.sj, st.js, todo, cur)
            /\ call' = Returned("remove_task", task_id, <<>>, "None")
    /\ UNCHANGED <<components, exec, listing, now, _scheduler_thread, _stop_event, pc, todo, cur, callerPc,
                   signalled>>

\* ---------------------------------------------------- the worker thread
\* Job.should_run at time t
\* a test that lets a job run only after the minute it is due
should_run_after(job, t) == t > job.next_run

\* Job.should_run: the job is due
should_run(job, t) == t >= job.next_run

\* a sort that puts a job before the jobs of equal next_run
RECURSIVE InsertBefore(_, _, _)
InsertBefore(sorted, j, h) ==
    IF sorted = <<>> THEN <<j>>
    ELSE IF h[j].next_run <= h[Head(sorted)].next_run THEN <<j>> \o sorted
    ELSE <<Head(sorted)>> \o InsertBefore(Tail(sorted), j, h)

\* sorted(jobs): by next_run, jobs of equal next_run in the order given
RECURSIVE Insert(_, _, _)
Insert(sorted, j, h) ==
    IF sorted = <<>> THEN <<j>>
    ELSE IF h[j].next_run < h[Head(sorted)].next_run THEN <<j>> \o sorted
    ELSE <<Head(sorted)>> \o Insert(Tail(sorted), j, h)

RECURSIVE Sorted(_, _)
Sorted(js, h) ==
    IF js = <<>> THEN <<>>
    ELSE Insert(Sorted(SubSeq(js, 1, Len(js) - 1), h), js[Len(js)], h)

\* the jobs one call of schedule.run_pending() runs, in the order it runs them
Runnable(sj, h, t) == Sorted(SelectSeq(sj, LAMBDA j : should_run(h[j], t)), h)

\* a rescheduling that adds the period to the time the job was due
RescheduledFromDue(job, t) == [job EXCEPT !.next_run = job.next_run + Period(job)]

\* Job.run() after the job function returned: next_run = now + period
Rescheduled(job, t) == [job EXCEPT !.next_run = t + Period(job)]

\* _run_scheduler, first statement: _stop_event.clear()
WorkerClearEvent(t) ==
    /\ pc[t] = "start"
    /\ _stop_event' = [_stop_event EXCEPT !.flag = FALSE]
    /\ pc' = [pc EXCEPT ![t] = "check"]
    /\ call' = NoCall
    /\ UNCHANGED <<components, exec, listing, now, heap, schedule_jobs, _jobs, _scheduler_thread, todo, cur,
                   callerPc, ncalls, signalled>>

\* while not _stop_event.is_set()
WorkerCheck(t) ==
    /\ pc[t] = "check"
    /\ pc' = [pc EXCEPT ![t] = IF _stop_event.flag THEN "clear_schedule"
                                ELSE "run_pending"]
    /\ call' = NoCall
    /\ UNCHANGED <<components, exec, listing, now, heap, schedule_jobs, _jobs, _scheduler_thread, _stop_event,
                   todo, cur, callerPc, ncalls, signalled>>

\* schedule.run_pending() collects and sorts the jobs that are due and calls the
\* first: _task_execution_function is in flight.  With nothing due, the worker
\* sleeps its second and tests the event again.
WorkerRunPending(t) ==
    /\ pc[t] = "run_pending"
    /\ LET due == Runnable(schedule_jobs, heap, now)
       IN  IF due = <<>>
           THEN /\ pc' = [pc EXCEPT ![t] = "check"]
                /\ UNCHANGED <<todo, cur>>
           ELSE /\ pc' = [pc EXCEPT ![t] = "executing"]
                /\ cur' = [cur EXCEPT ![t] = Head(due)]
                /\ todo' = [todo EXCEPT ![t] = Tail(due)]
    /\ call' = NoCall
    /\ UNCHANGED <<components, exec, listing, now, heap, schedule_jobs, _jobs, _scheduler_thread, _stop_event,
                   callerPc, ncalls, signalled>>

\* _task_execution_function returns and the job is rescheduled; run_pending
\* calls the next job it collected, or returns (sleep, then the test again)
FinishJob(t) ==
    /\ pc[t] = "executing"
    /\ LET h == [heap EXCEPT ![cur[t]] = Rescheduled(heap[cur[t]], now)]
           c == [cur EXCEPT ![t] = IF todo[t] = <<>> THEN None ELSE Head(todo[t])]
           d == [todo EXCEPT ![t] = IF todo[t] = <<>> THEN <<>> ELSE Tail(todo[t])]
       IN  /\ cur' = c
           /\ todo' = d
           /\ heap' = Collect(h, schedule_jobs, _jobs, d, c)
    /\ pc' = [pc EXCEPT ![t] = IF todo[t] = <<>> THEN "check" ELSE "executing"]
    /\ call' = NoCall
    /\ UNCHANGED <<components, now, schedule_jobs, _jobs, _scheduler_thread, _stop_event,
                   callerPc, ncalls, signalled>>

\* the same with the execution taken as one step and no list_tasks followed
WorkerFinishJob(t) == FinishJob(t) /\ UNCHANGED <<components, exec, listing>>

\* after the loop: schedule.clear()
ClearSchedule(t) ==
    /\ pc[t] = "clear_schedule"
    /\ schedule_jobs' = <<>>
    /\ heap' = Collect(heap, <<>>, _jobs, todo, cur)
    /\ pc' = [pc EXCEPT ![t] = "clear_jobs"]
    /\ call' = NoCall
    /\ UNCHANGED <<components, now, _jobs, _scheduler_thread, _stop_event, todo, cur, callerPc,
                   ncalls, signalled>>

\* the same with no call of list_tasks or _task_execution_function followed
WorkerClearSchedule(t) == ClearSchedule(t) /\ UNCHANGED <<components, exec, listing>>

\* after the loop: _jobs.clear(); the thread ends
WorkerClearJobs(t) ==
    /\ pc[t] = "clear_jobs"
    /\ _jobs' = <<>>
    /\ heap' = Collect(heap, schedule_jobs, <<>>, todo, cur)
    /\ pc' = [pc EXCEPT ![t] = "dead"]
    /\ call' = NoCall
    /\ UNCHANGED <<components, exec, listing, now, schedule_jobs, _scheduler_thread, _stop_event, todo, cur,
                   callerPc, ncalls, signalled>>

Worker(t) ==
    \/ WorkerClearEvent(t)
    \/ WorkerCheck(t)
    \/ WorkerRunPending(t)
    \/ WorkerFinishJob(t)
    \/ WorkerClearSchedule(t)
    \/ WorkerClearJobs(t)

\* a minute passes
Tick ==
    /\ now < MaxTime
    /\ now' = now + 1
    /\ call' = NoCall
    /\ UNCHANGED <<components, exec, listing, heap, schedule_jobs, _jobs, _scheduler_thread, _stop_event, pc,
                   todo, cur, callerPc, ncalls, signalled>>

\* starting, stopping and running: the calls and steps that touch the threads,
\* the handle and the event
Lifecycle ==
    \/ StartAlreadyRunning
    \/ StartScheduler
    \/ StopNotRunning
    \/ StopSignal
    \/ StopJoined
    \/ StopTimedOut
    \/ \E t \in Threads : Worker(t)
    \/ Tick

Next ==
    \/ Lifecycle
    \/ AddTask
    \/ RemoveTask

Spec == Init /\ [][Next]_vars

\* The scheduling the code can count on: a thread that can take a step takes
\* it (every execution in flight returns), and a join that can return returns.
\* The caller is not obliged to call anything.  add_task and remove_task, which
\* touch neither threads nor event and cannot be called by a caller blocked in
\* join, are left to Spec.
FairSpec ==
    /\ Init /\ [][Lifecycle]_vars
    /\ \A t \in Threads : WF_vars(Worker(t))
    /\ WF_vars(StopJoined)
    /\ WF_vars(StopTimedOut)

\* ------------------------------------------- _task_execution_function
\* str.startswith(prefix)
StartsWith(s, prefix) == Len(s) >= Len(prefix) /\ SubSeq(s, 1, Len(prefix)) = prefix

\* str.replace(old, new), old one character
RECURSIVE Replace(_, _, _)
Replace(s, old, new) ==
    IF s = <<>> THEN <<>>
    ELSE IF Len(s) = 1 THEN (IF s[1] = old THEN new ELSE s)
    ELSE LET half == Len(s) \div 2
         IN  Replace(SubSeq(s, 1, half), old, new)
                \o Replace(SubSeq(s, half + 1, Len(s)), old, new)

\* the texts of gemini_client.py and scheduler.py; ReasonText stands for the
\* text of an exception, GeneratedText for the text of response.parts
ErrorPrefix ==
    <<"E","r","r","o","r",":">>
NoApiKeyText ==
    <<"E","r","r","o","r",":"," ","A","P","I"," ","K","e","y"," ","n","o",
      "t"," ","c","o","n","f","i","g","u","r","e","d"," ","f","o","r"," ",
      "G","e","m","i","n","i","C","l","i","e","n","t",".">>
NoModelText ==
    <<"E","r","r","o","r",":"," ","G","e","m","i","n","i"," ","m","o","d",
      "e","l"," ","n","o","t"," ","i","n","i","t","i","a","l","i","z","e",
      "d","."," ","C","h","e","c","k"," ","A","P","I"," ","k","e","y"," ",
      "a","n","d"," ","c","o","n","f","i","g","u","r","a","t","i","o","n",
      ".">>
NoContentText ==
    <<"E","r","r","o","r",":"," ","G","e","m","i","n","i"," ","A","P","I",
      " ","r","e","t","u","r","n","e","d"," ","n","o"," ","c","o","n","t",
      "e","n","t",","," ","p","o","s","s","i","b","l","y"," ","d","u","e",
      " ","t","o"," ","s","a","f","e","t","y"," ","s","e","t","t","i","n",
      "g","s"," ","o","r"," ","o","t","h","e","r"," ","r","e","s","t","r",
      "i","c","t","i","o","n","s","."," ","B","l","o","c","k"," ","R","e",
      "a","s","o","n",":"," ","U","n","k","n","o","w","n">>
BlockedText ==
    <<"E","r","r","o","r",":"," ","P","r","o","m","p","t"," ","w","a","s",
      " ","b","l","o","c","k","e","d"," ","b","y"," ","G","e","m","i","n",
      "i"," ","A","P","I","."," ","R","e","a","s","o","n",":"," ">>
StoppedText ==
    <<"E","r","r","o","r",":"," ","G","e","n","e","r","a","t","i","o","n",
      " ","s","t","o","p","p","e","d"," ","u","n","e","x","p","e","c","t",
      "e","d","l","y"," ","b","y"," ","G","e","m","i","n","i"," ","A","P",
      "I","."," ","R","e","a","s","o","n",":"," ">>
UnexpectedText ==
    <<"E","r","r","o","r",":"," ","A","n"," ","u","n","e","x","p","e","c",
      "t","e","d"," ","e","r","r","o","r"," ","o","c","c","u","r","r","e",
      "d"," ","w","h","i","l","e"," ","c","o","m","m","u","n","i","c","a",
      "t","i","n","g"," ","w","i","t","h"," ","G","e","m","i","n","i"," ",
      "A","P","I",":"," ">>
ExceptionText ==
    <<"E","r","r","o","r",":"," ","E","x","c","e","p","t","i","o","n"," ",
      "o","c","c","u","r","r","e","d"," ","w","h","i","l","e"," ","c","o",
      "n","t","a","c","t","i","n","g"," ","G","e","m","i","n","i",":"," ">>
UnknownIssueText ==
    <<"E","r","r","o","r",":"," ","U","n","k","n","o","w","n"," ","i","s",
      "s","u","e"," ","d","u","r","i","n","g"," ","G","e","m","i","n","i",
      " ","i","n","t","e","r","a","c","t","i","o","n",","," ","n","o"," ",
      "r","e","s","p","o","n","s","e"," ","o","b","t","a","i","n","e","d",
      ".">>
GeneratedText ==
    <<"R","a","i","n"," ","i","n"," ","K","e","n","t">>
ReasonText ==
    <<"q","u","o","t","a">>
BrText ==
    <<"<","b","r",">">>
\* what a call of GeminiClient(api_key).get_gemini_response can meet
ClientCases ==
    {"no api key", "no model", "no parts", "blocked prompt", "stop candidate",
     "api exception", "text", "empty text"}

\* the cases in which get_gemini_response returns an error_message
ClientFailures == ClientCases \ {"text", "empty text"}

\* GeminiClient.get_gemini_response: what it returns
get_gemini_response(case) ==
    CASE case = "no api key" -> NoApiKeyText
      [] case = "no model" -> NoModelText
      [] case = "no parts" -> NoContentText
      [] case = "blocked prompt" -> BlockedText \o ReasonText
      [] case = "stop candidate" -> StoppedText \o ReasonText
      [] case = "api exception" -> UnexpectedText \o ReasonText
      [] case = "text" -> GeneratedText
      [] case = "empty text" -> <<>>

\* the outcomes of the Gemini step: the client's, or a client that raises
GenerationOutcomes == ClientCases \cup {"raises"}

\* the exception classes the except clauses of a try statement name
GeminiHandlers == {"Exception"}
MailHandlersNarrow == {"ImportError", "KeyError"}
MailHandlers == {"ImportError", "KeyError", "Exception"}
UpdateHandlersNarrow == {"ImportError"}
UpdateHandlers == {"ImportError", "Exception"}

\* an exception (every one here derives from Exception) meets the clauses
Catches(handlers, exception) == exception \in handlers \/ "Exception" \in handlers

\* lines 28-55: response and gemini_interaction_successful after the Gemini step
GeminiStep(outcome) ==
    LET returned == IF outcome = "raises" THEN ExceptionText \o ReasonText
                    ELSE get_gemini_response(outcome)
        successful == /\ outcome # "raises"
                      /\ returned # <<>>
                      /\ ~StartsWith(returned, ErrorPrefix)
    IN  [response |-> IF ~successful /\ returned = <<>> THEN UnknownIssueText
                      ELSE returned,
         gemini_interaction_successful |-> successful]

\* the recipients and the SMTP settings a task is scheduled with
EmailTos == {"", "reader@example.com"}
SmtpKeys == {"server", "port", "user", "password"}
Complete ==
    [keys |-> SmtpKeys, server |-> "smtp.example.com", port |-> <<"5","8","7">>,
     user |-> "news@example.com", password |-> "secret"]
SmtpConfigs ==
    { Complete,
      NoConfig,
      [Complete EXCEPT !.server = ""],
      [Complete EXCEPT !.user = ""],
      [Complete EXCEPT !.keys = SmtpKeys \ {"port"}, !.port = <<>>],
      [Complete EXCEPT !.port = <<>>],
      [Complete EXCEPT !.keys = SmtpKeys \ {"password"}, !.password = ""],
      [Complete EXCEPT !.password = ""] }

\* `smtp_config and smtp_config.get("server") and smtp_config.get("user")`
MailConfigured(smtp_config) ==
    /\ smtp_config.keys # {}
    /\ "server" \in smtp_config.keys /\ smtp_config.server # ""
    /\ "user" \in smtp_config.keys /\ smtp_config.user # ""

\* lines 66-72, the arguments of EmailSender(...) in order: the exception
\* their evaluation raises, or "none"
SenderRaises(smtp_config) ==
    IF "port" \notin smtp_config.keys THEN "KeyError"
    ELSE IF IntRaises(smtp_config.port) THEN "ValueError"
    ELSE IF "password" \notin smtp_config.keys THEN "KeyError"
    ELSE "none"

\* EmailSender.send_email, `all([...])`: every setting is set
SettingsComplete(smtp_config) ==
    /\ smtp_config.server # ""
    /\ IntOf(smtp_config.port) # 0
    /\ smtp_config.user # ""
    /\ smtp_config.password # ""

\* how sender.send_email(...) can end: False without a connection when a
\* setting is empty; else True, False (SMTP error, caught inside) or, for a
\* sender that raises, an exception
SendOutcomes(smtp_config) ==
    IF SettingsComplete(smtp_config) THEN {"True", "False", "raises"} ELSE {"False"}

\* how config_manager.update_task_last_run_details(...) can end
UpdateOutcomes == {"True", "False", "raises"}

\* lines 73-79: what send_email is called with (of the bodies, the response)
MailCall(e) ==
    [to |-> e.email_to,
     subject_prefix |-> IF e.gemini_interaction_successful THEN "Gemini Task Result"
                        ELSE "Gemini Task Alert - Error",
     body_html |-> Replace(e.response, "n", BrText),
     body_text |-> e.response]

\* an update kept for the executions whose mail was sent
UpdateIfMailed(e) == e.mail = "True"

\* line 101, `if response:`
ShouldUpdate(e) == e.response # <<>>

\* lines 28-55, the Gemini step.  The recipient and the settings the task was
\* scheduled with are met here, with what the client does this time.
ExecGemini(t) ==
    /\ pc[t] = "executing"
    /\ exec.pc = "gemini"
    /\ \E email_to \in EmailTos : \E smtp_config \in SmtpConfigs :
       \E outcome \in GenerationOutcomes :
          exec' = [exec EXCEPT
                     !.email_to = email_to,
                     !.smtp_config = smtp_config,
                     !.gemini = outcome,
                     !.gemini_calls = @ + 1,
                     !.response = GeminiStep(outcome).response,
                     !.gemini_interaction_successful =
                         GeminiStep(outcome).gemini_interaction_successful,
                     !.pc = IF outcome = "raises" /\ ~Catches(GeminiHandlers, "RuntimeError")
                            THEN "raised" ELSE "email"]
    /\ call' = NoCall
    /\ UNCHANGED <<components, listing, now, heap, schedule_jobs, _jobs, _scheduler_thread,
                   _stop_event, pc, todo, cur, callerPc, ncalls, signalled>>

\* lines 58-95, the mail step
ExecMail(t) ==
    /\ pc[t] = "executing"
    /\ exec.pc = "email"
    /\ IF exec.email_to = "" \/ ~MailConfigured(exec.smtp_config)
       THEN exec' = [exec EXCEPT !.mail = "skipped", !.pc = "update"]
       ELSE IF SenderRaises(exec.smtp_config) # "none"
       THEN exec' = [exec EXCEPT
                       !.mail = SenderRaises(exec.smtp_config),
                       !.pc = IF Catches(MailHandlers, SenderRaises(exec.smtp_config))
                              THEN "update" ELSE "raised"]
       ELSE \E sent \in SendOutcomes(exec.smtp_config) :
               exec' = [exec EXCEPT
                          !.mail_calls = Append(@, MailCall(exec)),
                          !.mail = sent,
                          !.pc = IF sent = "raises" /\ ~Catches(MailHandlers, "SMTPException")
                                 THEN "raised" ELSE "update"]
    /\ call' = NoCall
    /\ UNCHANGED <<components, listing, now, heap, schedule_jobs, _jobs, _scheduler_thread,
                   _stop_event, pc, todo, cur, callerPc, ncalls, signalled>>

\* lines 101-115, the update of the task's last run in the configuration
ExecUpdate(t) ==
    /\ pc[t] = "executing"
    /\ exec.pc = "update"
    /\ IF ShouldUpdate(exec)
       THEN \E saved \in UpdateOutcomes :
               exec' = [exec EXCEPT
                          !.update_calls = Append(@, [task_id |-> heap[cur[t]].tag,
                                                      last_response |-> exec.response]),
                          !.update = saved,
                          !.pc = IF saved = "raises" /\ ~Catches(UpdateHandlers, "OSError")
                                 THEN "raised" ELSE "done"]
       ELSE exec' = [exec EXCEPT !.pc = "done"]
    /\ call' = NoCall
    /\ UNCHANGED <<components, listing, now, heap, schedule_jobs, _jobs, _scheduler_thread,
                   _stop_event, pc, todo, cur, callerPc, ncalls, signalled>>

\* an exception leaves _task_execution_function, Job.run() and run_pending():
\* the job is not rescheduled, the rest of the batch is not run, and the
\* except clause of _run_scheduler (line 296) leads to the sleep and the test
AbandonBatch(t) ==
    /\ pc[t] = "executing"
    /\ LET c == [cur EXCEPT ![t] = None]
           d == [todo EXCEPT ![t] = <<>>]
       IN  /\ cur' = c
           /\ todo' = d
           /\ heap' = Collect(heap, schedule_jobs, _jobs, d, c)
    /\ pc' = [pc EXCEPT ![t] = "check"]
    /\ call' = NoCall
    /\ UNCHANGED <<components, now, schedule_jobs, _jobs, _scheduler_thread, _stop_event,
                   callerPc, ncalls, signalled>>

\* _task_execution_function is left: by its last line, or by an exception
ExecReturn(t) ==
    /\ exec.pc \in {"done", "raised"}
    /\ IF exec.pc = "done" THEN FinishJob(t) ELSE AbandonBatch(t)
    /\ exec' = ExecIdle
    /\ UNCHANGED listing

\* one worker, its executions step by step
ExecNext ==
    \/ StartScheduler
    \/ \E t \in Threads : WorkerClearEvent(t)
    \/ \E t \in Threads : WorkerCheck(t)
    \/ \E t \in Threads : WorkerRunPending(t)
    \/ \E t \in Threads : ExecGemini(t)
    \/ \E t \in Threads : ExecMail(t)
    \/ \E t \in Threads : ExecUpdate(t)
    \/ \E t \in Threads : ExecReturn(t)
    \/ Tick

ExecSpec == Init /\ [][ExecNext]_vars

\* ------------------------------------------------- list_tasks, step by step
\* what list_tasks reports of a job: its id and its next run
Entry(job) == [id |-> job.tag, next_run |-> job.next_run]

\* what list_tasks would report of the job collection as it stands
Snapshot(sj, h) == [i \in 1..Len(sj) |-> Entry(h[sj[i]])]

\* `seen` collects what the job collection was at each instant of the call
Observed(l, sj, h) ==
    IF l.pc = "iterating" THEN [l EXCEPT !.seen = @ \cup {Snapshot(sj, h)}] ELSE l

\* list_tasks is called: `if not schedule.jobs: return []`, else the loop begins
ListBegin ==
    /\ callerPc = "idle"
    /\ listing.pc = "idle"
    /\ ncalls < MaxCalls
    /\ ncalls' = ncalls + 1
    /\ callerPc' = "list_tasks"
    /\ listing' = [pc |-> IF schedule_jobs = <<>> THEN "returning" ELSE "iterating",
                   i |-> 1,
                   tasks_info |-> <<>>,
                   seen |-> {Snapshot(schedule_jobs, heap)}]
    /\ call' = NoCall
    /\ UNCHANGED <<components, exec, now, heap, schedule_jobs, _jobs, _scheduler_thread,
                   _stop_event, pc, todo, cur, signalled>>

\* `for job in schedule.jobs`: the list iterator asks for the next job, reads
\* its tags and its next_run and appends the entry; past the end the loop ends
ListStep ==
    /\ listing.pc = "iterating"
    /\ IF listing.i > Len(schedule_jobs)
       THEN listing' = [listing EXCEPT !.pc = "returning"]
       ELSE listing' = [listing EXCEPT
                          !.tasks_info = Append(@, Entry(heap[schedule_jobs[listing.i]])),
                          !.i = @ + 1]
    /\ call' = NoCall
    /\ UNCHANGED <<components, exec, now, heap, schedule_jobs, _jobs, _scheduler_thread,
                   _stop_event, pc, todo, cur, callerPc, ncalls, signalled>>

\* `return tasks_info`
ListReturn ==
    /\ listing.pc = "returning"
    /\ listing' = NotListing
    /\ callerPc' = "idle"
    /\ call' = NoCall
    /\ UNCHANGED <<components, exec, now, heap, schedule_jobs, _jobs, _scheduler_thread,
                   _stop_event, pc, todo, cur, ncalls, signalled>>

\* the worker's writes to the job collection while list_tasks may be iterating
ListWorkerFinishJob(t) ==
    /\ FinishJob(t)
    /\ listing' = Observed(listing, schedule_jobs', heap')
    /\ UNCHANGED exec

ListWorkerClearSchedule(t) ==
    /\ ClearSchedule(t)
    /\ listing' = Observed(listing, schedule_jobs', heap')
    /\ UNCHANGED exec

\* the caller starts, stops and lists while the worker runs
ListNext ==
    \/ StartScheduler
    \/ StopSignal
    \/ StopJoined
    \/ StopTimedOut
    \/ ListBegin
    \/ ListStep
    \/ ListReturn
    \/ \E t \in Threads : WorkerClearEvent(t)
    \/ \E t \in Threads : WorkerCheck(t)
    \/ \E t \in Threads : WorkerRunPending(t)
    \/ \E t \in Threads : ListWorkerFinishJob(t)
    \/ \E t \in Threads : ListWorkerClearSchedule(t)
    \/ \E t \in Threads : WorkerClearJobs(t)
    \/ Tick

ListSpec == Init /\ [][ListNext]_vars

\* ------------------------------------------------- _parse_interval, on its own
\* the interval texts: a number part, a separator, a unit part, between a
\* leading and a trailing part
NumberParts ==
    {<<"1">>,
     <<"2">>,
     <<"0">>,
     <<"-","1">>,
     <<"+","3">>,
     <<"1","_","0">>,
     <<"1","_","_","0">>,
     <<"_","1">>,
     <<"0","7">>,
     <<"x">>,
     <<"1",".","5">>,
     <<"1","2">>,
     <<>>}
UnitParts ==
    {<<"m","i","n","u","t","e">>,
     <<"m","i","n","u","t","e","s">>,
     <<"M","i","n","u","t","e","s">>,
     <<"H","O","U","R">>,
     <<"h","o","u","r","s">>,
     <<"d","a","y">>,
     <<"D","a","y","s">>,
     <<"w","e","e","k">>,
     <<"w","e","e","k","s">>,
     <<"s","e","c","o","n","d","s">>,
     <<"m","i","n">>,
     <<"m","i","n","u","t","e","s","s">>,
     <<>>}
Separators == {<<>>, <<" ">>, <<" "," ">>, <<"\t">>, <<"\n">>}
Leading == {<<>>, <<" ">>}
Trailing == {<<>>, <<" ">>, <<" ","x">>}
IntervalTexts ==
    {l \o n \o sep \o u \o t :
        l \in Leading, n \in NumberParts, sep \in Separators, u \in UnitParts, t \in Trailing}

\* _parse_interval is called with the text and returns
ParseInterval ==
    /\ parsed.ret = Pending
    /\ parsed' = [parsed EXCEPT !.ret = _parse_interval(parsed.interval_str)]
    /\ UNCHANGED <<now, heap, schedule_jobs, _jobs, _scheduler_thread, _stop_event,
                   pc, todo, cur, callerPc, call, ncalls, signalled, exec, listing,
                   captured, client, sender, gui, config, manager>>

ParseInit ==
    /\ SchedulerInit
    /\ captured = NoStore
    /\ parsed \in {[interval_str |-> text, ret |-> Pending] : text \in IntervalTexts}
    /\ client = NoClient
    /\ sender = NoSender
    /\ gui = NoGui
    /\ config = NoConfigFile
    /\ manager = NoManager

ParseNext == ParseInterval

ParseSpec == ParseInit /\ [][ParseNext]_vars

\* ------------------------------------------------- GeminiClient, on its own
\* the except clauses of get_gemini_response that name two classes only
ClientHandlersNarrow == {"BlockedPromptException", "StopCandidateException"}

\* the except clauses of get_gemini_response
ClientHandlers == {"BlockedPromptException", "StopCandidateException", "Exception"}

\* what generate_content and the reading of its response can meet: a response
\* with parts, a response without parts (with a block reason and a finish
\* reason, or without), or an exception
ApiKeys == {"", "key"}
Prompts == {"news", "weather"}
Exceptions == {"BlockedPromptException", "StopCandidateException", "ValueError"}
BlockReasons == {<<"U","n","k","n","o","w","n">>, <<"S","A","F","E","T","Y">>, <<"O","T","H","E","R">>}
FinishReasons == {<<>>, <<"S","T","O","P">>, <<"M","A","X","_","T","O","K","E","N","S">>, <<"S","A","F","E","T","Y">>}
Texts == {GeneratedText, <<>>}
Responses ==
    [kind : {"parts"}, text : Texts]
    \cup [kind : {"no parts"}, block_reason : BlockReasons, finish_reason : FinishReasons]
    \cup [kind : {"raises"}, exception : Exceptions]

\* " (Finish Reason: ...)", for a candidate that did not finish with STOP
FinishText(finish_reason) ==
    IF finish_reason \in {<<>>, <<"S","T","O","P">>} THEN <<>>
    ELSE <<" ","(","F","i","n","i","s","h"," ","R","e","a","s","o","n",":"," ">> \o finish_reason \o <<")">>

\* lines 64-97: what get_gemini_response returns for what the API call met
ReturnedText(response) ==
    IF response.kind = "parts" THEN response.text
    ELSE IF response.kind = "no parts"
         THEN NoContentText \o response.block_reason \o FinishText(response.finish_reason)
    ELSE IF response.exception = "BlockedPromptException" THEN BlockedText \o ReasonText
    ELSE IF response.exception = "StopCandidateException" THEN StoppedText \o ReasonText
    ELSE UnexpectedText \o ReasonText

\* GeminiClient(api_key): the model is set if there is a key and configuring works
ClientConstruct ==
    /\ client.pc = "new"
    /\ \E api_key \in ApiKeys, configured \in BOOLEAN :
          client' = [client EXCEPT !.pc = "ready", !.api_key = api_key,
                                   !.model = api_key # "" /\ configured]
    /\ UNCHANGED <<now, heap, schedule_jobs, _jobs, _scheduler_thread, _stop_event,
                   pc, todo, cur, callerPc, call, ncalls, signalled, exec, listing,
                   captured, parsed, sender, gui, config, manager>>

\* get_gemini_response(prompt, search_internet) is entered
ClientEnter ==
    /\ client.pc \in {"ready", "returned"}
    /\ client.api_calls < MaxCalls
    /\ \E prompt \in Prompts, search_internet \in BOOLEAN :
          client' = [client EXCEPT !.pc = "entered", !.prompt = prompt,
                                   !.search_internet = search_internet,
                                   !.met = "nothing", !.ret = <<>>]
    /\ UNCHANGED <<now, heap, schedule_jobs, _jobs, _scheduler_thread, _stop_event,
                   pc, todo, cur, callerPc, call, ncalls, signalled, exec, listing,
                   captured, parsed, sender, gui, config, manager>>

\* lines 33-41: without a key or without a model it returns at once
ClientGuard ==
    /\ client.pc = "entered"
    /\ client' = IF client.api_key = ""
                 THEN [client EXCEPT !.pc = "returned", !.met = "no api key", !.ret = NoApiKeyText]
                 ELSE IF ~client.model
                 THEN [client EXCEPT !.pc = "returned", !.met = "no model", !.ret = NoModelText]
                 ELSE [client EXCEPT !.pc = "calling"]
    /\ UNCHANGED <<now, heap, schedule_jobs, _jobs, _scheduler_thread, _stop_event,
                   pc, todo, cur, callerPc, call, ncalls, signalled, exec, listing,
                   captured, parsed, sender, gui, config, manager>>

\* lines 45-97: the API is called, and what it meets is returned as a text, or
\* leaves the method as an exception no clause catches
ClientGenerate ==
    /\ client.pc = "calling"
    /\ \E response \in Responses :
          client' = [client EXCEPT
                !.api_calls = @ + 1,
                !.met = IF response.kind = "parts" /\ response.text = <<>> THEN "empty text"
                        ELSE response.kind,
                !.pc = IF response.kind = "raises" /\ ~Catches(ClientHandlers, response.exception)
                       THEN "raised" ELSE "returned",
                !.ret = IF response.kind = "raises" /\ ~Catches(ClientHandlers, response.exception)
                        THEN <<>> ELSE ReturnedText(response)]
    /\ UNCHANGED <<now, heap, schedule_jobs, _jobs, _scheduler_thread, _stop_event,
                   pc, todo, cur, callerPc, call, ncalls, signalled, exec, listing,
                   captured, parsed, sender, gui, config, manager>>

ClientNext ==
    \/ ClientConstruct
    \/ ClientEnter
    \/ ClientGuard
    \/ ClientGenerate

ClientSpec == Init /\ [][ClientNext]_vars

\* ------------------------------------------------- EmailSender, on its own
\* a constructor that keeps use_tls as it was requested
TlsAsRequested(use_tls, use_ssl) == use_tls

\* lines 15-20: self.use_tls after __init__: STARTTLS is given up for direct SSL
TlsAfterInit(use_tls, use_ssl) == IF use_ssl /\ use_tls THEN FALSE ELSE use_tls

\* the connection one of the two blocks of send_email opens: its class and
\* whether starttls() is called on it
Connection(use_tls, use_ssl) ==
    IF use_ssl THEN [class |-> "SMTP_SSL", starttls |-> FALSE]
    ELSE [class |-> "SMTP", starttls |-> use_tls]

\* EmailSender(server, port, user, password, use_tls, use_ssl)
SenderConstruct ==
    /\ sender.pc = "new"
    /\ \E use_tls \in BOOLEAN, use_ssl \in BOOLEAN, settings \in BOOLEAN :
          sender' = [sender EXCEPT
                !.pc = "ready",
                !.requested = [use_tls |-> use_tls, use_ssl |-> use_ssl],
                !.use_tls = TlsAfterInit(use_tls, use_ssl),
                !.use_ssl = use_ssl,
                !.settings = settings]
    /\ UNCHANGED <<now, heap, schedule_jobs, _jobs, _scheduler_thread, _stop_event,
                   pc, todo, cur, callerPc, call, ncalls, signalled, exec, listing,
                   captured, parsed, client, gui, config, manager>>

\* lines 33-52: send_email is entered; incomplete settings or no body return False
SendBegin ==
    /\ sender.pc \in {"ready", "returned"}
    /\ sender.sends < MaxCalls
    /\ \E body \in BOOLEAN :
          sender' = [sender EXCEPT
                !.sends = @ + 1,
                !.body = body,
                !.connections = <<>>,
                !.pc = IF sender.settings /\ body THEN "first" ELSE "returned",
                !.ret = IF sender.settings /\ body THEN "None" ELSE "False"]
    /\ UNCHANGED <<now, heap, schedule_jobs, _jobs, _scheduler_thread, _stop_event,
                   pc, todo, cur, callerPc, call, ncalls, signalled, exec, listing,
                   captured, parsed, client, gui, config, manager>>

\* lines 59-67: the first connection is opened (and secured); an exception of
\* the connecting or of starttls() returns False
SendFirstConnection ==
    /\ sender.pc = "first"
    /\ \E outcome \in {"connected", "connect raises", "starttls raises"} :
          /\ outcome = "starttls raises" => Connection(sender.use_tls, sender.use_ssl).starttls
          /\ sender' = [sender EXCEPT
                !.connections = IF outcome = "connect raises" THEN @
                                ELSE Append(@, Connection(sender.use_tls, sender.use_ssl)),
                !.pc = IF outcome = "connected" THEN "second" ELSE "returned",
                !.ret = IF outcome = "connected" THEN "None" ELSE "False"]
    /\ UNCHANGED <<now, heap, schedule_jobs, _jobs, _scheduler_thread, _stop_event,
                   pc, todo, cur, callerPc, call, ncalls, signalled, exec, listing,
                   captured, parsed, client, gui, config, manager>>

\* lines 78-94: the second connection is opened (and secured), logged in to and
\* sent on; an exception of any of these returns False
SendSecondConnection ==
    /\ sender.pc = "second"
    /\ \E outcome \in {"sent", "connect raises", "starttls raises", "login raises",
                       "sendmail raises"} :
          /\ outcome = "starttls raises" => Connection(sender.use_tls, sender.use_ssl).starttls
          /\ sender' = [sender EXCEPT
                !.connections = IF outcome = "connect raises" THEN @
                                ELSE Append(@, Connection(sender.use_tls, sender.use_ssl)),
                !.pc = "returned",
                !.ret = IF outcome = "sent" THEN "True" ELSE "False"]
    /\ UNCHANGED <<now, heap, schedule_jobs, _jobs, _scheduler_thread, _stop_event,
                   pc, todo, cur, callerPc, call, ncalls, signalled, exec, listing,
                   captured, parsed, client, gui, config, manager>>

SenderNext ==
    \/ SenderConstruct
    \/ SendBegin
    \/ SendFirstConnection
    \/ SendSecondConnection

SenderSpec == Init /\ [][SenderNext]_vars

\* ------------------------------------------------- the App and its tasks
\* the tasks of the configuration, in their order
ConfigTasks ==
    << [id |-> "a", interval |-> I_1minute], [id |-> "b", interval |-> I_2Minutes] >>

\* active_tasks of start_scheduler_gui: the tasks whose "enabled" is true
active_tasks(enabled) ==
    LET Enabled(task) == enabled[task.id] IN SelectSeq(ConfigTasks, Enabled)

\* start_scheduler_gui, from the Start button: the enabled tasks are handed to
\* start_scheduler_thread (with none enabled it returns without a start)
GuiStart ==
    /\ gui.pc = "idle"
    /\ active_tasks(gui.enabled) # <<>>
    /\ StartThread(active_tasks(gui.enabled))
    /\ UNCHANGED components

\* stop_scheduler_gui, from the Stop button
GuiStop ==
    /\ gui.pc = "idle"
    /\ StopSignal

\* _handle_task_enable_disable: the flag is stored; with the scheduler running
\* a stop and a start follow
GuiEnableDisable ==
    /\ gui.pc = "idle"
    /\ callerPc = "idle"
    /\ \E id \in TaskIds, enable_flag \in BOOLEAN :
          gui' = [pc |-> IF SchedulerRunning THEN "restart" ELSE "idle",
                  enabled |-> [gui.enabled EXCEPT ![id] = enable_flag]]
    /\ call' = NoCall
    /\ UNCHANGED <<now, heap, schedule_jobs, _jobs, _scheduler_thread, _stop_event,
                   pc, todo, cur, callerPc, ncalls, signalled, exec, listing,
                   captured, parsed, client, sender, config, manager>>

\* the stop_scheduler_gui of a restart
GuiRestartStop ==
    /\ gui.pc = "restart"
    /\ StopSignal

\* the start_scheduler_gui of a restart, once the stop has returned
GuiRestartStart ==
    /\ gui.pc = "restart"
    /\ callerPc = "idle"
    /\ _scheduler_thread = None
    /\ gui' = [gui EXCEPT !.pc = "idle"]
    /\ IF active_tasks(gui.enabled) # <<>>
       THEN StartThread(active_tasks(gui.enabled))
       ELSE /\ call' = NoCall
            /\ UNCHANGED <<now, heap, schedule_jobs, _jobs, _scheduler_thread, _stop_event,
                           pc, todo, cur, callerPc, ncalls, signalled, exec, listing>>
    /\ UNCHANGED <<captured, parsed, client, sender, config, manager>>

GuiInit ==
    /\ SchedulerInit
    /\ captured = NoStore
    /\ parsed = NoText
    /\ client = NoClient
    /\ sender = NoSender
    /\ gui \in {[pc |-> "idle", enabled |-> e] : e \in [TaskIds -> BOOLEAN]}
    /\ config = NoConfigFile
    /\ manager = NoManager

GuiNext ==
    \/ GuiStart
    \/ GuiStop
    \/ GuiEnableDisable
    \/ GuiRestartStop
    \/ GuiRestartStart
    \/ StopJoined
    \/ StopTimedOut
    \/ \E t \in Threads : Worker(t)
    \/ Tick

GuiSpec == GuiInit /\ [][GuiNext]_vars

\* ------------------------------------------------- the configuration file
\* the configurations: with or without a key, with older or newer SMTP
\* settings, with tasks that have run and tasks that have not
TaskKeys == {"id", "prompt", "interval", "search_internet", "enabled"}
RunKeys == {"last_response", "last_sent_time"}
FreshTask(id) ==
    [keys |-> TaskKeys, id |-> id, prompt |-> "news", interval |-> "1 minutes",
     search_internet |-> FALSE, enabled |-> TRUE, last_response |-> "",
     last_sent_time |-> ""]
RunTask(id) ==
    [FreshTask(id) EXCEPT !.keys = TaskKeys \cup RunKeys, !.last_response = "Rain in Kent",
                          !.last_sent_time = "2026-01-01T07:00:00"]
TaskDicts(id) == {FreshTask(id), RunTask(id)}
StoredTaskLists ==
    {<<>>} \cup {<<a>> : a \in TaskDicts("a")}
           \cup {<<a, b>> : a \in TaskDicts("a"), b \in TaskDicts("b")}
SmtpSettings ==
    {[DefaultSmtp EXCEPT !.use_tls = tls, !.use_ssl = ssl, !.password = "secret"] :
        tls \in BOOLEAN, ssl \in BOOLEAN}
    \cup {[DefaultSmtp EXCEPT !.keys = SmtpSubKeys \ {"use_ssl"}, !.use_tls = tls] :
            tls \in BOOLEAN}
Configs ==
    {[keys |-> DefaultKeys, gemini_api_key |-> k, recipient_email |-> "reader@example.com",
      smtp_settings |-> smtp, scheduled_tasks |-> tasks] :
        k \in ApiKeys, smtp \in SmtpSettings, tasks \in StoredTaskLists}
    \cup {[keys |-> DefaultKeys \ {"recipient_email"}, gemini_api_key |-> k,
           recipient_email |-> "", smtp_settings |-> smtp, scheduled_tasks |-> <<>>] :
            k \in ApiKeys, smtp \in SmtpSettings}

\* json.dump and json.load of a value: True and False are written as true and
\* false; texts, numbers, lists and the keys of a dict are kept
DumpBool(b) == IF b THEN "true" ELSE "false"
ParseBool(text) == text = "true"
DumpTask(task) ==
    [task EXCEPT !.search_internet = DumpBool(@), !.enabled = DumpBool(@)]
ParseTask(json) ==
    [json EXCEPT !.search_internet = ParseBool(@), !.enabled = ParseBool(@)]
Dump(config_data) ==
    [config_data EXCEPT
        !.smtp_settings = [@ EXCEPT !.use_tls = DumpBool(@), !.use_ssl = DumpBool(@)],
        !.scheduled_tasks = [i \in DOMAIN @ |-> DumpTask(@[i])]]
Parse(json) ==
    [json EXCEPT
        !.smtp_settings = [@ EXCEPT !.use_tls = ParseBool(@), !.use_ssl = ParseBool(@)],
        !.scheduled_tasks = [i \in DOMAIN @ |-> ParseTask(@[i])]]

\* _ensure_task_fields: the two fields of a run are added, empty, where missing
_ensure_task_fields(task_data) == [task_data EXCEPT !.keys = @ \cup RunKeys]

\* smtp settings that are set back to the defaults
DefaultsFor(smtp_settings) == DefaultSmtp

\* lines 66-69 and 74-77: the sub-keys smtp_settings lacks get their defaults
WithSubKeys(smtp_settings) ==
    [keys |-> SmtpSubKeys,
     server |-> IF "server" \in smtp_settings.keys THEN smtp_settings.server ELSE DefaultSmtp.server,
     port |-> IF "port" \in smtp_settings.keys THEN smtp_settings.port ELSE DefaultSmtp.port,
     user |-> IF "user" \in smtp_settings.keys THEN smtp_settings.user ELSE DefaultSmtp.user,
     password |-> IF "password" \in smtp_settings.keys THEN smtp_settings.password
                  ELSE DefaultSmtp.password,
     use_tls |-> IF "use_tls" \in smtp_settings.keys THEN smtp_settings.use_tls
                 ELSE DefaultSmtp.use_tls,
     use_ssl |-> IF "use_ssl" \in smtp_settings.keys THEN smtp_settings.use_ssl
                 ELSE DefaultSmtp.use_ssl]

\* load_config with a file that holds a JSON object: the keys it lacks get
\* their defaults, the tasks get their fields
load_config(file) ==
    LET config_data == Parse(file)
    IN  [keys |-> DefaultKeys \cup config_data.keys,
         gemini_api_key |-> IF "gemini_api_key" \in config_data.keys
                            THEN config_data.gemini_api_key ELSE DEFAULT_CONFIG.gemini_api_key,
         recipient_email |-> IF "recipient_email" \in config_data.keys
                             THEN config_data.recipient_email
                             ELSE DEFAULT_CONFIG.recipient_email,
         smtp_settings |-> IF "smtp_settings" \in config_data.keys
                           THEN WithSubKeys(config_data.smtp_settings)
                           ELSE DEFAULT_CONFIG.smtp_settings,
         scheduled_tasks |-> IF "scheduled_tasks" \in config_data.keys
                             THEN [i \in DOMAIN config_data.scheduled_tasks |->
                                      _ensure_task_fields(config_data.scheduled_tasks[i])]
                             ELSE DEFAULT_CONFIG.scheduled_tasks]

\* save_config(c)
SaveConfig ==
    /\ config.pc = "given"
    /\ config' = [config EXCEPT !.pc = "saved", !.file = Dump(config.c)]
    /\ UNCHANGED <<now, heap, schedule_jobs, _jobs, _scheduler_thread, _stop_event,
                   pc, todo, cur, callerPc, call, ncalls, signalled, exec, listing,
                   captured, parsed, client, sender, gui, manager>>

\* load_config()
LoadConfig ==
    /\ config.pc = "saved"
    /\ config' = [config EXCEPT !.pc = "loaded", !.loaded = load_config(config.file)]
    /\ UNCHANGED <<now, heap, schedule_jobs, _jobs, _scheduler_thread, _stop_event,
                   pc, todo, cur, callerPc, call, ncalls, signalled, exec, listing,
                   captured, parsed, client, sender, gui, manager>>

\* save_config of what load_config returned
SaveLoaded ==
    /\ config.pc = "loaded"
    /\ config' = [config EXCEPT !.pc = "saved again", !.before = config.file,
                                !.file = Dump(config.loaded)]
    /\ UNCHANGED <<now, heap, schedule_jobs, _jobs, _scheduler_thread, _stop_event,
                   pc, todo, cur, callerPc, call, ncalls, signalled, exec, listing,
                   captured, parsed, client, sender, gui, manager>>

ConfigInit ==
    /\ SchedulerInit
    /\ captured = NoStore
    /\ parsed = NoText
    /\ client = NoClient
    /\ sender = NoSender
    /\ gui = NoGui
    /\ config \in {[NoConfigFile EXCEPT !.pc = "given", !.c = c] : c \in Configs}
    /\ manager = NoManager

ConfigNext ==
    \/ SaveConfig
    \/ LoadConfig
    \/ SaveLoaded

ConfigSpec == ConfigInit /\ [][ConfigNext]_vars

\* ------------------------------------------------- config_manager and its file
\* DEFAULT_CONFIG is a module-level dict.  load_config hands out its
\* smtp_settings dict and its scheduled_tasks list themselves where the file
\* lacks the key (line 65), and its smtp_settings dict where there is no file
\* (DEFAULT_CONFIG.copy() of line 85 copies the top level only).  A config
\* that shares a value with DEFAULT_CONFIG sees every change of it, and a
\* change made in place through the config is a change of DEFAULT_CONFIG.
\* The file always holds a JSON object, and the writing of it succeeds.

\* lines 66-69 and 74-77, with the smtp_settings of DEFAULT_CONFIG as they are
SubKeysFrom(defaults, smtp_settings) ==
    [keys |-> defaults.keys \cup smtp_settings.keys,
     server |-> IF "server" \in smtp_settings.keys THEN smtp_settings.server ELSE defaults.server,
     port |-> IF "port" \in smtp_settings.keys THEN smtp_settings.port ELSE defaults.port,
     user |-> IF "user" \in smtp_settings.keys THEN smtp_settings.user ELSE defaults.user,
     password |-> IF "password" \in smtp_settings.keys THEN smtp_settings.password
                  ELSE defaults.password,
     use_tls |-> IF "use_tls" \in smtp_settings.keys THEN smtp_settings.use_tls
                 ELSE defaults.use_tls,
     use_ssl |-> IF "use_ssl" \in smtp_settings.keys THEN smtp_settings.use_ssl
                 ELSE defaults.use_ssl]

\* [_ensure_task_fields(task) for task in tasks]
Ensured(tasks) == [i \in DOMAIN tasks |-> _ensure_task_fields(tasks[i])]

\* lines 59-80: load_config with a file, and DEFAULT_CONFIG as it is
LoadFrom(defaults, file) ==
    LET config_data == Parse(file)
    IN  [keys |-> DefaultKeys \cup config_data.keys,
         gemini_api_key |-> IF "gemini_api_key" \in config_data.keys
                            THEN config_data.gemini_api_key ELSE defaults.gemini_api_key,
         recipient_email |-> IF "recipient_email" \in config_data.keys
                             THEN config_data.recipient_email ELSE defaults.recipient_email,
         smtp_settings |-> IF "smtp_settings" \in config_data.keys
                           THEN SubKeysFrom(defaults.smtp_settings, config_data.smtp_settings)
                           ELSE defaults.smtp_settings,
         scheduled_tasks |-> IF "scheduled_tasks" \in config_data.keys
                             THEN Ensured(config_data.scheduled_tasks)
                             ELSE defaults.scheduled_tasks]

\* the keys whose value DEFAULT_CONFIG.copy() shares with DEFAULT_CONFIG
CopyShares == {"smtp_settings"}

\* load_config(): the config it returns, the values the config shares with
\* DEFAULT_CONFIG, and the file and DEFAULT_CONFIG after it.  Without a file
\* (lines 81-88) the copy of DEFAULT_CONFIG gets a new task list and is saved.
Load(m) ==
    IF m.exists
    THEN [config |-> LoadFrom(m.defaults, m.file),
          shared |-> {"smtp_settings", "scheduled_tasks"} \ m.file.keys,
          file |-> m.file,
          defaults |-> m.defaults]
    ELSE LET default_tasks_migrated == Ensured(m.defaults.scheduled_tasks)
             final_default_config ==
                 [m.defaults EXCEPT !.scheduled_tasks = default_tasks_migrated]
         IN  [config |-> final_default_config,
              shared |-> CopyShares,
              file |-> Dump(final_default_config),
              defaults |-> final_default_config]

\* the config a thread holds, as it reads it now
ConfigOf(m, th) ==
    LET l == m.proc[th]
    IN  [l.config EXCEPT
            !.smtp_settings = IF "smtp_settings" \in l.shared
                              THEN m.defaults.smtp_settings ELSE @,
            !.scheduled_tasks = IF "scheduled_tasks" \in l.shared
                                THEN m.defaults.scheduled_tasks ELSE @]

\* DEFAULT_CONFIG after a thread changed, in place, the values of its config
\* under the keys "changed", which made the config config_data
DefaultsAfter(m, th, config_data, changed) ==
    LET touched == m.proc[th].shared \cap changed
    IN  [m.defaults EXCEPT
            !.smtp_settings = IF "smtp_settings" \in touched
                              THEN config_data.smtp_settings ELSE @,
            !.scheduled_tasks = IF "scheduled_tasks" \in touched
                                THEN config_data.scheduled_tasks ELSE @]

\* task.get("id") == task_id
HasId(task, task_id) == "id" \in task.keys /\ task.id = task_id

\* line 132: the ids of the tasks that have one
existing_ids(config_data) ==
    {config_data.scheduled_tasks[i].id :
        i \in {j \in DOMAIN config_data.scheduled_tasks :
                  /\ "id" \in config_data.scheduled_tasks[j].keys
                  /\ config_data.scheduled_tasks[j].id # ""}}

\* the place of the first task with the id, 0 without one
FirstWithId(tasks, task_id) ==
    LET found == {i \in DOMAIN tasks : HasId(tasks[i], task_id)}
    IN  IF found = {} THEN 0 ELSE CHOOSE i \in found : \A j \in found : i <= j

\* a task list with the task put first
Prepended(tasks, task_data) == <<task_data>> \o tasks

\* line 137: config["scheduled_tasks"].append(task_data)
Appended(tasks, task_data) == Append(tasks, task_data)

\* line 148: the first task with the id is replaced by the updated task, with
\* its run fields
Replaced(tasks, task_id, updated_task_data) ==
    [tasks EXCEPT ![FirstWithId(tasks, task_id)] = _ensure_task_fields(updated_task_data)]

\* an update of the run fields that sets the other fields of the task back
RunFieldsOnly(task, last_response, last_sent_time_iso) ==
    [FreshTask(task.id) EXCEPT !.keys = task.keys \cup RunKeys,
                               !.last_response = last_response,
                               !.last_sent_time = last_sent_time_iso]

\* lines 174-175: the two run fields of a task are set
WithRunFields(task, last_response, last_sent_time_iso) ==
    [task EXCEPT !.keys = @ \cup RunKeys, !.last_response = last_response,
                 !.last_sent_time = last_sent_time_iso]

\* lines 172-177: the first task with the id gets its run fields set
LastRun(tasks, task_id, last_response, last_sent_time_iso) ==
    [tasks EXCEPT ![FirstWithId(tasks, task_id)] =
                      WithRunFields(@, last_response, last_sent_time_iso)]

\* lines 190-192: the tasks without the id
Without(tasks, task_id) ==
    LET Other(task) == ~HasId(task, task_id) IN SelectSeq(tasks, Other)

\* a function of config_manager is entered: its load_config() has returned
Enter(th, op, task_id, task_data) ==
    /\ manager.proc[th].pc = "outside"
    /\ manager.calls < MaxCalls
    /\ LET got == Load(manager)
       IN  manager' = [manager EXCEPT
                !.exists = TRUE,
                !.file = got.file,
                !.defaults = got.defaults,
                !.proc[th] = [pc |-> IF op = "load_config" THEN "holding" ELSE "loaded",
                              op |-> op, task_id |-> task_id, task_data |-> task_data,
                              config |-> got.config, shared |-> got.shared,
                              existed |-> manager.exists, before |-> manager.file],
                !.calls = @ + 1,
                !.last = NoReturn]
    /\ UNCHANGED <<now, heap, schedule_jobs, _jobs, _scheduler_thread, _stop_event,
                   pc, todo, cur, callerPc, call, ncalls, signalled, exec, listing,
                   captured, parsed, client, sender, gui, config>>

\* a function returns ret, after save_config(config_data) if it wrote, and
\* after it changed the values under the keys "changed" in place
Return(th, op, ret, wrote, config_data, changed) ==
    /\ manager' = [manager EXCEPT
            !.file = IF wrote THEN Dump(config_data) ELSE @,
            !.defaults = DefaultsAfter(manager, th, config_data, changed),
            !.proc[th] = Outside,
            !.last = [op |-> op, th |-> th, task_id |-> manager.proc[th].task_id,
                      task_data |-> manager.proc[th].task_data, ret |-> ret,
                      existed |-> manager.proc[th].existed,
                      before |-> manager.proc[th].before,
                      loaded |-> manager.proc[th].config,
                      stored |-> manager.file,
                      fresh |-> LoadFrom(manager.defaults, manager.file)]]
    /\ UNCHANGED <<now, heap, schedule_jobs, _jobs, _scheduler_thread, _stop_event,
                   pc, todo, cur, callerPc, call, ncalls, signalled, exec, listing,
                   captured, parsed, client, sender, gui, config>>

\* the holder of a config changes it in place
Edit(th, config_data, changed) ==
    /\ config_data # ConfigOf(manager, th)
    /\ manager' = [manager EXCEPT
            !.defaults = DefaultsAfter(manager, th, config_data, changed),
            !.proc[th].config = config_data,
            !.last = NoReturn]
    /\ UNCHANGED <<now, heap, schedule_jobs, _jobs, _scheduler_thread, _stop_event,
                   pc, todo, cur, callerPc, call, ncalls, signalled, exec, listing,
                   captured, parsed, client, sender, gui, config>>

\* get_tasks(): the tasks of load_config(), each with its run fields
get_tasks(m) == Ensured(Load(m).config.scheduled_tasks)

\* the task add_task_gui builds, the copy _handle_task_enable_disable makes
\* of a task to disable it, and what a run reports
Disabled(id) == [FreshTask(id) EXCEPT !.enabled = FALSE]
RunReport ==
    [NoTask EXCEPT !.last_response = "Rain in Kent", !.last_sent_time = "2026-01-01T07:00:00"]

\* the calls
CallLoadConfig(th) == Enter(th, "load_config", "", NoTask)
CallAddTaskToConfig(th) ==
    \E id \in TaskIds : Enter(th, "add_task_to_config", id, FreshTask(id))
CallUpdateTaskInConfig(th) ==
    \E id \in TaskIds : Enter(th, "update_task_in_config", id, Disabled(id))
CallUpdateTaskLastRunDetails(th) ==
    \E id \in TaskIds : Enter(th, "update_task_last_run_details", id, RunReport)
CallRemoveTaskFromConfig(th) ==
    \E id \in TaskIds : Enter(th, "remove_task_from_config", id, NoTask)

\* lines 132-138 of add_task_to_config
AddTaskToConfig(th) ==
    /\ manager.proc[th].pc = "loaded"
    /\ manager.proc[th].op = "add_task_to_config"
    /\ LET config_data == ConfigOf(manager, th)
           task_data == manager.proc[th].task_data
       IN  IF /\ "id" \in task_data.keys
              /\ task_data.id # ""
              /\ task_data.id \in existing_ids(config_data)
           THEN Return(th, "add_task_to_config", FALSE, FALSE, config_data, {})
           ELSE Return(th, "add_task_to_config", TRUE, TRUE,
                       [config_data EXCEPT !.scheduled_tasks = Appended(@, task_data)],
                       {"scheduled_tasks"})

\* lines 143-155 of update_task_in_config
UpdateTaskInConfig(th) ==
    /\ manager.proc[th].pc = "loaded"
    /\ manager.proc[th].op = "update_task_in_config"
    /\ LET config_data == ConfigOf(manager, th)
           task_id == manager.proc[th].task_id
       IN  IF FirstWithId(config_data.scheduled_tasks, task_id) # 0
           THEN Return(th, "update_task_in_config", TRUE, TRUE,
                       [config_data EXCEPT !.scheduled_tasks =
                           Replaced(@, task_id, manager.proc[th].task_data)],
                       {"scheduled_tasks"})
           ELSE Return(th, "update_task_in_config", FALSE, FALSE, config_data, {})

\* lines 171-183 of update_task_last_run_details
UpdateTaskLastRunDetails(th) ==
    /\ manager.proc[th].pc = "loaded"
    /\ manager.proc[th].op = "update_task_last_run_details"
    /\ LET config_data == ConfigOf(manager, th)
           task_id == manager.proc[th].task_id
           report == manager.proc[th].task_data
       IN  IF FirstWithId(config_data.scheduled_tasks, task_id) # 0
           THEN Return(th, "update_task_last_run_details", TRUE, TRUE,
                       [config_data EXCEPT !.scheduled_tasks =
                           LastRun(@, task_id, report.last_response, report.last_sent_time)],
                       {"scheduled_tasks"})
           ELSE Return(th, "update_task_last_run_details", FALSE, FALSE, config_data, {})

\* lines 189-197 of remove_task_from_config: the config gets a new list
RemoveTaskFromConfig(th) ==
    /\ manager.proc[th].pc = "loaded"
    /\ manager.proc[th].op = "remove_task_from_config"
    /\ LET config_data == ConfigOf(manager, th)
           task_id == manager.proc[th].task_id
       IN  IF Len(Without(config_data.scheduled_tasks, task_id)) < Len(config_data.scheduled_tasks)
           THEN Return(th, "remove_task_from_config", TRUE, TRUE,
                       [config_data EXCEPT !.scheduled_tasks = Without(@, task_id)], {})
           ELSE Return(th, "remove_task_from_config", FALSE, FALSE, config_data, {})

\* the caller of load_config changes the smtp settings of the config in place
\* (gui.py lines 411-416, config_manager.py line 219)
ChangeSmtpSettings(th) ==
    /\ manager.proc[th].pc = "holding"
    /\ \E user \in {"user@example.com", "smtp_user@example.com"}, use_ssl \in BOOLEAN :
          Edit(th, [ConfigOf(manager, th) EXCEPT !.smtp_settings.user = user,
                                                 !.smtp_settings.use_ssl = use_ssl],
               {"smtp_settings"})

\* the caller of load_config appends a task to the task list of the config
\* (gui.py line 526)
AppendTask(th) ==
    /\ manager.proc[th].pc = "holding"
    /\ \E id \in TaskIds :
          /\ id \notin existing_ids(ConfigOf(manager, th))
          /\ Edit(th, [ConfigOf(manager, th) EXCEPT
                          !.scheduled_tasks = Appended(@, FreshTask(id))],
                  {"scheduled_tasks"})

\* the caller of load_config saves the config (gui.py lines 426 and 460,
\* config_manager.py line 220)
SaveHeldConfig(th) ==
    /\ manager.proc[th].pc = "holding"
    /\ Return(th, "save_config", TRUE, TRUE, ConfigOf(manager, th), {})

\* the files the program starts with: written by the program, by an older
\* version of it, or without a key
StoredConfig(tasks) ==
    [keys |-> DefaultKeys, gemini_api_key |-> "key", recipient_email |-> "reader@example.com",
     smtp_settings |-> DefaultSmtp, scheduled_tasks |-> tasks]
WrittenFiles ==
    {Dump(StoredConfig(<<>>)),
     Dump(StoredConfig(<<FreshTask("a")>>)),
     Dump(StoredConfig(<<RunTask("a"), FreshTask("b")>>))}
OlderFiles ==
    {Dump([StoredConfig(<<>>) EXCEPT !.keys = DefaultKeys \ {"scheduled_tasks"}]),
     Dump([StoredConfig(<<FreshTask("a")>>) EXCEPT !.keys = DefaultKeys \ {"smtp_settings"}]),
     Dump([StoredConfig(<<FreshTask("b")>>) EXCEPT
              !.smtp_settings.keys = SmtpSubKeys \ {"use_ssl"}])}

\* one thread calls the functions of config_manager, one call after the other
StoreInit ==
    /\ SchedulerInit
    /\ captured = NoStore
    /\ parsed = NoText
    /\ client = NoClient
    /\ sender = NoSender
    /\ gui = NoGui
    /\ config = NoConfigFile
    /\ manager \in {NoManager} \cup
                   {[NoManager EXCEPT !.exists = TRUE, !.file = file] :
                       file \in WrittenFiles \cup OlderFiles}

StoreNext ==
    \/ CallLoadConfig("caller")
    \/ ChangeSmtpSettings("caller")
    \/ AppendTask("caller")
    \/ SaveHeldConfig("caller")
    \/ CallAddTaskToConfig("caller")
    \/ AddTaskToConfig("caller")
    \/ CallUpdateTaskInConfig("caller")
    \/ UpdateTaskInConfig("caller")
    \/ CallUpdateTaskLastRunDetails("caller")
    \/ UpdateTaskLastRunDetails("caller")
    \/ CallRemoveTaskFromConfig("caller")
    \/ RemoveTaskFromConfig("caller")

StoreSpec == StoreInit /\ [][StoreNext]_vars

\* the App calls the functions of config_manager while the worker, after an
\* execution, calls update_task_last_run_details (scheduler.py line 110)
RaceInit ==
    /\ SchedulerInit
    /\ captured = NoStore
    /\ parsed = NoText
    /\ client = NoClient
    /\ sender = NoSender
    /\ gui = NoGui
    /\ config = NoConfigFile
    /\ manager \in {[NoManager EXCEPT !.exists = TRUE, !.file = file] : file \in WrittenFiles}

RaceNext ==
    \/ CallLoadConfig("caller")
    \/ ChangeSmtpSettings("caller")
    \/ SaveHeldConfig("caller")
    \/ CallAddTaskToConfig("caller")
    \/ AddTaskToConfig("caller")
    \/ CallUpdateTaskInConfig("caller")
    \/ UpdateTaskInConfig("caller")
    \/ CallRemoveTaskFromConfig("caller")
    \/ RemoveTaskFromConfig("caller")
    \/ CallUpdateTaskLastRunDetails("worker")
    \/ UpdateTaskLastRunDetails("worker")

RaceSpec == RaceInit /\ [][RaceNext]_vars

\* ------------------------------------------------- the mail of a scheduled task
\* scheduler.py lines 66-72: what EmailSender(...) is asked for.  use_tls is
\* smtp_config.get("use_tls", True); use_ssl is not passed and has its default
ScheduledRequest(smtp_config) ==
    [use_tls |-> IF "use_tls" \in smtp_config.keys THEN smtp_config.use_tls ELSE TRUE,
     use_ssl |-> FALSE]

\* _task_execution_function makes its EmailSender of the stored SMTP settings
\* (as load_config returns them); the password may be empty
ExecConstructSender ==
    /\ sender.pc = "new"
    /\ \E smtp_settings \in SmtpSettings, settings \in BOOLEAN :
          LET smtp_config == WithSubKeys(smtp_settings)
              requested == ScheduledRequest(smtp_config)
          IN  sender' = [sender EXCEPT
                    !.pc = "ready",
                    !.stored = [use_tls |-> smtp_config.use_tls,
                                use_ssl |-> smtp_config.use_ssl],
                    !.requested = requested,
                    !.use_tls = TlsAfterInit(requested.use_tls, requested.use_ssl),
                    !.use_ssl = requested.use_ssl,
                    !.settings = settings]
    /\ UNCHANGED <<now, heap, schedule_jobs, _jobs, _scheduler_thread, _stop_event,
                   pc, todo, cur, callerPc, call, ncalls, signalled, exec, listing,
                   captured, parsed, client, gui, config, manager>>

MailNext ==
    \/ ExecConstructSender
    \/ SendBegin
    \/ SendFirstConnection
    \/ SendSecondConnection

MailSpec == Init /\ [][MailNext]_vars

\* ------------------------------------------------- what a job captures
\* a key a dict does not hold
Missing == "<missing>"

\* dict.get(key, default)
Get(d, key, default) == IF d[key] = Missing THEN default ELSE d[key]

\* the caller's store: a task of the task list, the two global values and the
\* SMTP settings
Intervals == {I_1minute, I_1hour}
Globals == {"global", "edited"}
Passwords == {"pw", "pw2"}
TaskConfigs ==
    [prompt : Prompts, interval : Intervals, search_internet : BOOLEAN,
     email_to : {Missing, "own"}, api_key : {Missing, "own"}]
Stores ==
    {[task_config |-> tc, global_api_key |-> "global", global_email_to |-> "global",
      smtp_config |-> [password |-> "pw"]] : tc \in TaskConfigs}

\* a job that looks its task up in the caller's store when it runs
KeywordsOfStore(store, job) ==
    [prompt |-> store.task_config["prompt"],
     search_internet |-> store.task_config["search_internet"],
     email_to |-> Get(store.task_config, "email_to", store.global_email_to),
     api_key |-> Get(store.task_config, "api_key", store.global_api_key)]

\* the keyword arguments Job.run passes to _task_execution_function: those the
\* job was given in do()
Keywords(store, job) == job.keywords

\* the job start_scheduler_thread makes of a task: the values are read out of
\* the task's dict, the SMTP settings are passed on as the caller's dict
JobOf(store) ==
    [keywords |-> [prompt |-> store.task_config["prompt"],
                   search_internet |-> store.task_config["search_internet"],
                   email_to |-> Get(store.task_config, "email_to", store.global_email_to),
                   api_key |-> Get(store.task_config, "api_key", store.global_api_key)],
     period |-> Period(_parse_interval(store.task_config["interval"]))]

\* the caller starts the scheduler with its task
CaptureStart ==
    /\ captured.job = NoJob
    /\ captured' = [captured EXCEPT !.job = JobOf(captured.store), !.ran = NoJob]
    /\ UNCHANGED <<now, heap, schedule_jobs, _jobs, _scheduler_thread, _stop_event,
                   pc, todo, cur, callerPc, call, ncalls, signalled, exec, listing, parsed, client, sender, gui, config, manager>>

\* the caller stops the scheduler
CaptureStop ==
    /\ captured.job # NoJob
    /\ captured' = [captured EXCEPT !.job = NoJob]
    /\ UNCHANGED <<now, heap, schedule_jobs, _jobs, _scheduler_thread, _stop_event,
                   pc, todo, cur, callerPc, call, ncalls, signalled, exec, listing, parsed, client, sender, gui, config, manager>>

\* the caller edits a value of its task, in the dict the scheduler was given
EditTask ==
    /\ \E tc \in TaskConfigs :
         /\ Cardinality({k \in DOMAIN tc : tc[k] # captured.store.task_config[k]}) = 1
         /\ captured' = [captured EXCEPT !.store.task_config = tc]
    /\ UNCHANGED <<now, heap, schedule_jobs, _jobs, _scheduler_thread, _stop_event,
                   pc, todo, cur, callerPc, call, ncalls, signalled, exec, listing, parsed, client, sender, gui, config, manager>>

\* the caller edits a global value or, in place, the SMTP settings
EditConfig ==
    /\ \/ \E v \in Globals : captured' = [captured EXCEPT !.store.global_api_key = v]
       \/ \E v \in Globals : captured' = [captured EXCEPT !.store.global_email_to = v]
       \/ \E v \in Passwords : captured' = [captured EXCEPT !.store.smtp_config.password = v]
    /\ captured' # captured
    /\ UNCHANGED <<now, heap, schedule_jobs, _jobs, _scheduler_thread, _stop_event,
                   pc, todo, cur, callerPc, call, ncalls, signalled, exec, listing, parsed, client, sender, gui, config, manager>>

\* the job runs: _task_execution_function receives the keyword arguments, and
\* the SMTP settings as the caller's dict holds them now
CaptureRun ==
    /\ captured.job # NoJob
    /\ captured' = [captured EXCEPT !.ran =
            [keywords |-> Keywords(captured.store, captured.job),
             period |-> captured.job.period,
             smtp_config |-> captured.store.smtp_config]]
    /\ UNCHANGED <<now, heap, schedule_jobs, _jobs, _scheduler_thread, _stop_event,
                   pc, todo, cur, callerPc, call, ncalls, signalled, exec, listing, parsed, client, sender, gui, config, manager>>

CaptureInit ==
    /\ SchedulerInit
    /\ captured \in {[store |-> st, job |-> NoJob, ran |-> NoJob] : st \in Stores}
    /\ parsed = NoText
    /\ client = NoClient
    /\ sender = NoSender
    /\ gui = NoGui
    /\ config = NoConfigFile
    /\ manager = NoManager

CaptureNext ==
    \/ CaptureStart
    \/ CaptureStop
    \/ EditTask
    \/ EditConfig
    \/ CaptureRun

CaptureSpec == CaptureInit /\ [][CaptureNext]_vars

\* ================================================================ claims
\* the workers that are inside the tick loop of _run_scheduler
InTickLoop == {t \in Threads : pc[t] \in {"check", "run_pending", "executing"}}

\* the workers with a call of _task_execution_function in flight
Executing == {t \in Threads : pc[t] = "executing"}

\* the ids of a job list
TagsOf(js, h) == [i \in 1..Len(js) |-> h[js[i]].tag]

\* C1: in every reachable state at most one scheduler worker thread is alive
\* and running the tick loop, whatever starts and stops (timed-out stops
\* included) came before.
C1_AtMostOneWorker == Cardinality(InTickLoop) <= 1

\* C2: at no time are two invocations of _task_execution_function in progress.
C2_ExecutionsAreSerial == Cardinality(Executing) <= 1

\* C3: start_scheduler_thread called while the worker is alive is a no-op: no
\* second worker, the stop event not replaced, the job collection (ids and
\* next-run times) as it was, whatever task list is passed.
C3_StartWhileRunningIsNoop ==
    [][(call'.op = "start" /\ SchedulerRunning)
        => /\ pc' = pc
           /\ _scheduler_thread' = _scheduler_thread
           /\ _stop_event' = _stop_event
           /\ schedule_jobs' = schedule_jobs
           /\ _jobs' = _jobs
           /\ heap' = heap]_vars

\* C3, its case: a start has just returned while the worker of an earlier
\* start is executing jobs of a task list other than the one passed
C3_Witness ==
    /\ call.op = "start"
    /\ SchedulerRunning
    /\ pc[_scheduler_thread] = "executing"
    /\ \E i \in 1..Len(call.tasks) :
          \A j \in 1..Len(schedule_jobs) :
              TaskIdOf(call.tasks[i], i) # heap[schedule_jobs[j]].tag

\* C4: stop_scheduler_thread called while Running always returns, and when it
\* returns both job lists are empty and the worker handle is cleared, whether
\* the worker exited within the join timeout or not.
C4_StopReturnsStopped ==
    /\ [](call.op = "stop" /\ call.ret \in {"stopped", "timed out"}
            => /\ schedule_jobs = <<>>
               /\ _jobs = <<>>
               /\ _scheduler_thread = None)
    /\ (callerPc = "joining" ~> callerPc = "idle")

\* C4, its case: a stop has returned after its join timed out, with jobs
\* listed before it and the worker still in an execution
C4_Witness ==
    /\ call.op = "stop"
    /\ call.ret = "timed out"
    /\ call.before # <<>>
    /\ Executing # {}

\* C5: stop_scheduler_thread called while no worker is alive is a no-op: the
\* job collection, the stop event and the worker handle stay as they are.
C5_StopWhileStoppedIsNoop ==
    [][(callerPc = "idle" /\ call'.op = "stop" /\ ~SchedulerRunning)
        => /\ schedule_jobs' = schedule_jobs
           /\ _jobs' = _jobs
           /\ heap' = heap
           /\ _stop_event' = _stop_event
           /\ _scheduler_thread' = _scheduler_thread
           /\ pc' = pc]_vars

\* C5, its case: a stop has returned "not running" with jobs in the collection
C5_Witness ==
    /\ call.op = "stop"
    /\ call.ret = "not running"
    /\ schedule_jobs # <<>>
    /\ _jobs # <<>>

\* C6: whenever stop_scheduler_thread signals a running worker, that worker
\* eventually leaves its tick loop and terminates (every execution in flight
\* terminates), also when the stop follows the start at once and when a new
\* start follows the stop.
C6_SignalledWorkerTerminates ==
    \A t \in Threads : (t \in signalled) ~> (pc[t] = "dead")

\* C7: an execution in flight when the stop signal is set runs to completion,
\* and once the signal is set the worker starts no execution beyond the one in
\* flight.
C7_NoExecutionAfterSignal ==
    [][\A t \in Threads :
          \* in flight, a job stays in flight until it returns and is rescheduled
          /\ (pc[t] = "executing" /\ cur'[t] # cur[t]
                => heap'[cur[t]].next_run = now + Period(heap[cur[t]])
                   \/ cur[t] \notin DOMAIN heap')
          \* a signalled worker does not call another job
          /\ (t \in signalled /\ pc'[t] = "executing"
                => pc[t] = "executing" /\ cur'[t] = cur[t])]_vars

\* the ids, in order, of the tasks of a list whose interval parses
RECURSIVE ParsableIds(_, _)
ParsableIds(tasks, i) ==
    IF i > Len(tasks) THEN <<>>
    ELSE (IF _parse_interval(tasks[i].interval) = NoSetup THEN <<>>
          ELSE <<TaskIdOf(tasks[i], i)>>) \o ParsableIds(tasks, i + 1)

\* C8: after start_scheduler_thread (from Stopped) with a task list in which
\* some intervals do not parse, list_tasks reports exactly the ids of the tasks
\* whose interval parses, and the worker is started.
C8_StartSchedulesParsableTasks ==
    [][(call'.op = "start" /\ ~SchedulerRunning)
        => /\ list_tasks' = ParsableIds(call'.tasks, 1)
           /\ TagsOf(_jobs', heap') = ParsableIds(call'.tasks, 1)
           /\ _scheduler_thread' # None
           /\ pc[_scheduler_thread'] = "unborn"
           /\ pc'[_scheduler_thread'] = "start"]_vars

\* C8, its case: a start has returned with a worker started and a task list
\* of which a task was rejected and a later one scheduled
C8_Witness ==
    /\ call.op = "start"
    /\ SchedulerRunning
    /\ pc[_scheduler_thread] = "start"
    /\ Len(call.tasks) = 2
    /\ _parse_interval(call.tasks[1].interval) = NoSetup
    /\ list_tasks = <<TaskIdOf(call.tasks[2], 2)>>

\* C9: add_task called with an id that already has a job returns an error and
\* leaves the job collection unchanged: list_tasks lists one job for the id.
C9_DuplicateAddRejected ==
    (call.op = "add_task" /\ \E i \in 1..Len(call.before) : call.before[i] = call.id)
        => /\ call.ret = "False"
           /\ list_tasks = call.before

\* C10: remove_task(id) removes every job tagged id and leaves every other job
\* (its id and next-run time) unchanged; with no job tagged id the job
\* collection is unchanged.
C10_RemoveTaskFrame ==
    [][call'.op = "remove_task"
        => LET id == call'.id
               Others(js) == SelectSeq(js, LAMBDA j : heap[j].tag # id)
           IN  /\ schedule_jobs' = Others(schedule_jobs)
               /\ _jobs' = Others(_jobs)
               /\ \A j \in Range(schedule_jobs') \cup Range(_jobs') : heap'[j] = heap[j]
               /\ ((\A j \in Range(schedule_jobs) \cup Range(_jobs) : heap[j].tag # id)
                      => schedule_jobs' = schedule_jobs /\ _jobs' = _jobs)]_vars

\* C10, its case: a remove_task has returned that removed a job and left one
C10_Witness ==
    /\ call.op = "remove_task"
    /\ \E i \in 1..Len(call.before) : call.before[i] = call.id
    /\ list_tasks # <<>>
    /\ Len(list_tasks) < Len(call.before)

\* the step in which the call of _task_execution_function worker t has in
\* flight returns and Job.run() reschedules the job
Finishes(t) == pc[t] = "executing" /\ (pc'[t] # "executing" \/ todo'[t] # todo[t])

\* C11: after each execution a job's next run is its previous next run plus
\* exactly one period, however long the execution took and however late the
\* worker came to it.
C11_NextRunAdvancesByOnePeriod ==
    [][\A t \in Threads :
        (Finishes(t) /\ cur[t] \in DOMAIN heap')
            => heap'[cur[t]].next_run = heap[cur[t]].next_run + Period(heap[cur[t]])]_vars

\* C12: when an execution of a job completes, the job's new next run is
\* strictly later than the time of completion: however slow the execution was,
\* the job is not due again at once.
C12_RescheduledAfterCompletion ==
    [][\A t \in Threads :
        (Finishes(t) /\ cur[t] \in DOMAIN heap')
            => /\ heap'[cur[t]].next_run > now'
               /\ ~should_run(heap'[cur[t]], now')]_vars

\* C12, its case: one start scheduled "a" and "b" for the same minute; the
\* worker came to them more than a period late, "a" has been executed and
\* rescheduled past the present, "b" is being executed
C12_Witness ==
    /\ ncalls = 1
    /\ \E t \in Threads : \E j \in DOMAIN heap :
        /\ pc[t] = "executing"
        /\ heap[cur[t]].tag = "b"
        /\ heap[cur[t]].next_run + Period(heap[cur[t]]) <= now
        /\ heap[j].tag = "a"
        /\ heap[j].next_run = now + Period(heap[j])

\* job j is live and due
LiveAndDue(j) ==
    /\ j \in Range(schedule_jobs)
    /\ heap[j].next_run <= now

\* the worker the handle refers to is executing job j
ExecutedByWorker(j) ==
    /\ SchedulerRunning
    /\ pc[_scheduler_thread] = "executing"
    /\ cur[_scheduler_thread] = j

GenerationFailed(e) == e.gemini \in ClientFailures \cup {"raises", "empty text"}

\* a step of execution e failed
AStepFailed(e) ==
    \/ GenerationFailed(e)
    \/ e.mail \in {"False", "raises", "KeyError", "ValueError"}
    \/ e.update \in {"False", "raises"}

\* the step in which worker t leaves _task_execution_function
Returns(t) == pc[t] = "executing" /\ exec.pc \in {"done", "raised"} /\ exec'.pc = "gemini"

\* C14: a failure in any step of one job's execution (generation, mail,
\* persistence) does not end the worker's tick loop and does not keep the
\* other jobs due in the same tick from being executed; the failing job is
\* rescheduled as after a success.
C14_FailureStaysInsideTheExecution ==
    [][\A t \in Threads :
        (Returns(t) /\ AStepFailed(exec))
            => /\ pc'[t] \in {"executing", "check"}
               /\ heap'[cur[t]] = Rescheduled(heap[cur[t]], now)
               /\ (todo[t] # <<>>
                     => /\ pc'[t] = "executing"
                        /\ cur'[t] = Head(todo[t])
                        /\ todo'[t] = Tail(todo[t]))]_vars

\* C14, its case: an execution in which all three steps failed is about to
\* return while another job of the same batch waits
C14_Witness ==
    \E t \in Threads :
        /\ pc[t] = "executing"
        /\ exec.pc = "done"
        /\ GenerationFailed(exec)
        /\ exec.mail = "False"
        /\ exec.update = "False"
        /\ todo[t] # <<>>

\* C15: _task_execution_function returns normally whatever the generation
\* (text, error string, nothing, exception), the mail (sent, False, exception,
\* missing key) and the persistence (saved, False, exception) do: no exception
\* leaves it.
C15_ExecutionNeverRaises == exec.pc # "raised"

\* C15, its case: the client, the sender and the update all raised and the
\* last line is reached
C15_Witness ==
    /\ exec.pc = "done"
    /\ exec.gemini = "raises"
    /\ exec.mail = "raises"
    /\ exec.update = "raises"

\* C16: when the mail step runs, the subject carries the error prefix if and
\* only if the generation step failed (raised, returned nothing, returned an
\* error string); every failure the client can return is taken as failed; a
\* failed generation with complete mail settings still sends the mail, and the
\* bodies of the mail carry the error text.
C16_ErrorMailForFailedGeneration ==
    /\ \A i \in 1..Len(exec.mail_calls) :
          /\ exec.mail_calls[i].subject_prefix = "Gemini Task Alert - Error"
                <=> GenerationFailed(exec)
          /\ exec.mail_calls[i].body_text = exec.response
          /\ exec.mail_calls[i].body_html = exec.response
    /\ (exec.gemini \in ClientFailures) => ~exec.gemini_interaction_successful
    /\ (/\ exec.pc \in {"update", "done"}
        /\ GenerationFailed(exec)
        /\ exec.email_to # ""
        /\ exec.smtp_config = Complete)
          => /\ Len(exec.mail_calls) = 1
             /\ StartsWith(exec.mail_calls[1].body_text, ErrorPrefix)

\* C17: every execution calls update_task_last_run_details exactly once, with
\* the task's id and the response text the mail step used (generated text or
\* error string), whether the mail step was skipped, succeeded, returned False
\* or raised.
C17_UpdateCalledOnceWithTheResponse ==
    /\ Len(exec.update_calls) <= 1
    /\ \A t \in Threads :
          (pc[t] = "executing" /\ exec.pc = "done")
              => /\ Len(exec.update_calls) = 1
                 /\ exec.update_calls[1].task_id = heap[cur[t]].tag
                 /\ exec.update_calls[1].last_response = exec.response
                 /\ exec.response # <<>>
                 /\ \A i \in 1..Len(exec.mail_calls) :
                       exec.mail_calls[i].body_text = exec.update_calls[1].last_response

\* C17, its case: the sender raised, and the update was called with the error
\* string of a failed generation
C17_Witness ==
    /\ exec.pc = "done"
    /\ exec.mail = "raises"
    /\ GenerationFailed(exec)
    /\ Len(exec.update_calls) = 1

\* a mail setting (server, port, user or secret) is missing: no such key, or
\* nothing under it
Incomplete(smtp_config) ==
    \/ smtp_config.keys # SmtpKeys
    \/ smtp_config.server = ""
    \/ smtp_config.port = <<>>
    \/ smtp_config.user = ""
    \/ smtp_config.password = ""

\* C18: the mail step is skipped (send_email is not called) whenever the
\* recipient is absent or a mail setting (server, port, user, secret) is
\* missing; otherwise send_email is called exactly once.
C18_MailSkippedWhenSettingsIncomplete ==
    exec.pc \in {"update", "done"}
        => IF exec.email_to = "" \/ Incomplete(exec.smtp_config)
           THEN exec.mail_calls = <<>>
           ELSE Len(exec.mail_calls) = 1

\* C19: nothing is retried: one due occurrence of a job causes exactly one
\* execution, hence one call of the generation service and at most one of the
\* mail service; no second execution of the job is in flight before its next
\* run.
C19_OneExecutionPerDueOccurrence ==
    \A t1 \in Threads : \A t2 \in Threads :
        (pc[t1] = "executing" /\ pc[t2] = "executing" /\ cur[t1] = cur[t2])
            => t1 = t2

\* C20: list_tasks is atomic with respect to the writes to the job collection:
\* what it returns is the job collection as it stood at one instant of the
\* call.
C20_ListTasksReturnsASnapshot ==
    listing.pc = "returning" => listing.tasks_info \in listing.seen

\* a step of a worker thread that is not its creation
WorkerSteps == \E t \in Threads : pc[t] # "unborn" /\ pc'[t] # pc[t]

\* C21: the worker itself removes no job from the job collection: outside a
\* stop that waits for it, no step of a (current or stale) worker takes a job
\* out of schedule.jobs or _jobs; the jobs of a start go by remove_task, stop
\* or a restart only.
C21_WorkerRemovesNoJob ==
    [][(WorkerSteps /\ callerPc = "idle")
          => /\ schedule_jobs' = schedule_jobs
             /\ _jobs' = _jobs]_vars

\* C22: after start_scheduler_thread returns from Stopped, the job collection
\* holds the jobs created from that call's task list and nothing else: no job
\* of an earlier run and no job add_task added while stopped survives.
C22_RestartReplacesJobs ==
    [][(call'.op = "start" /\ ~SchedulerRunning)
        => /\ _jobs' = schedule_jobs'
           /\ Len(schedule_jobs') = Len(ParsableIds(call'.tasks, 1))
           /\ \A i \in 1..Len(schedule_jobs') :
                 LET job == heap'[schedule_jobs'[i]]
                 IN  /\ job.tag = ParsableIds(call'.tasks, 1)[i]
                     /\ job.next_run = now + Period(job)]_vars

\* C22, its case: a start has returned that found a job "a" (added while
\* stopped) and scheduled a task list without an "a"
C22_Witness ==
    /\ call.op = "start"
    /\ SchedulerRunning
    /\ pc[_scheduler_thread] = "start"
    /\ \E i \in 1..Len(call.before) : call.before[i] = "a"
    /\ list_tasks # <<>>
    /\ \A i \in 1..Len(list_tasks) : list_tasks[i] # "a"

\* the task values a job was given at scheduling time
GivenAtScheduling(job) == [keywords |-> job.keywords, period |-> job.period]

\* C23: a scheduled job keeps the task values it was given at scheduling time
\* (prompt, interval, search flag, recipient, credential): an edit of the task
\* or of the configuration on the caller's side changes none of them, and an
\* execution receives exactly them, until the scheduler is stopped and started
\* again.
C23_JobKeepsItsTaskValues ==
    [][(captured.job # NoJob /\ captured'.job # NoJob)
        => /\ GivenAtScheduling(captured'.job) = GivenAtScheduling(captured.job)
           /\ captured'.ran # captured.ran
                => /\ captured'.ran.keywords = GivenAtScheduling(captured.job).keywords
                   /\ captured'.ran.period = GivenAtScheduling(captured.job).period]_vars

\* C23, its case: a job has run after the caller edited every value of its task
C23_Witness ==
    /\ captured.job # NoJob
    /\ captured.ran # NoJob
    /\ captured.ran.keywords = captured.job.keywords
    /\ \A k \in DOMAIN captured.job.keywords :
          captured.job.keywords[k] # JobOf(captured.store).keywords[k]
    /\ captured.job.period # JobOf(captured.store).period

\* the positions of the text that hold no whitespace
Inked(text) == {i \in 1..Len(text) : text[i] \notin Whitespace}

\* the token pairs of a text that is two tokens with whitespace between them
\* and, at most, whitespace around them
TokenPairs(text) ==
    {<<SubSeq(text, a, b), SubSeq(text, c, d)>> :
        <<a, b, c, d>> \in
           {q \in Inked(text) \X Inked(text) \X Inked(text) \X Inked(text) :
               /\ \A i \in Inked(text) : q[1] <= i /\ i <= q[4]
               /\ q[2] + 1 < q[3]
               /\ \A i \in q[1]..q[4] : i \in Inked(text) <=> (i <= q[2] \/ q[3] <= i)}}

\* the eight unit words and the unit each one names
UnitWords ==
    {<<Singular(Minutes), "minutes">>, <<Minutes, "minutes">>,
     <<Singular(Hours), "hours">>, <<Hours, "hours">>,
     <<Singular(Days), "days">>, <<Days, "days">>,
     <<Singular(Weeks), "weeks">>, <<Weeks, "weeks">>}

\* what a text "N unit" denotes: N >= 1 an integer, the unit word in any case
Denoted(text) ==
    {[interval |-> IntOf(tp[1]), unit |-> w[2]] :
        <<tp, w>> \in {x \in TokenPairs(text) \X UnitWords :
                          /\ ~IntRaises(x[1][1])
                          /\ IntOf(x[1][1]) >= 1
                          /\ Lower(x[1][2]) = x[2][1]}}

OnePeriod(job) == job.interval * UnitMinutes(job.unit)

\* C25: the first next run of a job is the time it was scheduled plus exactly
\* one period of its interval, whether start_scheduler_thread or add_task
\* scheduled it.
C25_FirstRunOnePeriodAfterScheduling ==
    [][/\ (call'.op = "add_task" /\ call'.ret = "True")
            => /\ Len(_jobs') = Len(_jobs) + 1
               /\ heap'[_jobs'[Len(_jobs')]].next_run
                     = now + OnePeriod(heap'[_jobs'[Len(_jobs')]])
       /\ (call'.op = "start" /\ ~SchedulerRunning)
            => \A j \in Range(_jobs') \cup Range(schedule_jobs') :
                  heap'[j].next_run = now + OnePeriod(heap'[j])]_vars

\* C25, its case: add_task has scheduled a job at a time after the start
C25_Witness ==
    /\ call.op = "add_task"
    /\ call.ret = "True"
    /\ now > 0
    /\ Len(_jobs) > 1
    /\ heap[_jobs[Len(_jobs)]].next_run = now + 1

\* C26: get_gemini_response never raises: without a credential, without a
\* model, when the API call errors or the content is withheld it returns a
\* text that begins with "Error:", and without a credential it returns
\* without having called the API.
C26_ClientReturnsErrorTexts ==
    /\ client.pc # "raised"
    /\ (client.pc = "returned" /\ client.met \in {"no api key", "no model", "no parts", "raises"})
          => StartsWith(client.ret, ErrorPrefix)
    /\ client.api_key = "" => client.api_calls = 0

\* C26, its case: a client with a key has called the API, which raised an
\* exception that is none of the two named ones, and has returned
C26_Witness ==
    /\ client.pc = "returned"
    /\ client.met = "raises"
    /\ client.api_calls > 0
    /\ StartsWith(client.ret, UnexpectedText)

\* the secure mode of a connection
ModeOf(connection) ==
    IF connection.class = "SMTP_SSL" THEN "implicit TLS"
    ELSE IF connection.starttls THEN "STARTTLS"
    ELSE "none"

\* the one secure mode a request asks for, implicit TLS first
ModeRequested(requested) ==
    IF requested.use_ssl THEN "implicit TLS"
    ELSE IF requested.use_tls THEN "STARTTLS"
    ELSE "none"

\* C27: an EmailSender never has both secure modes active: asked for both, it
\* uses implicit TLS and has STARTTLS disabled; asked for one or none, it uses
\* that one; and every connection of send_email is made in that mode.
C27_OneSecureMode ==
    sender.pc # "new"
        => /\ ~(sender.use_ssl /\ sender.use_tls)
           /\ sender.use_ssl = sender.requested.use_ssl
           /\ sender.use_tls = (sender.requested.use_tls /\ ~sender.requested.use_ssl)
           /\ \A i \in 1..Len(sender.connections) :
                 /\ ModeOf(sender.connections[i]) = ModeRequested(sender.requested)
                 /\ ~(sender.connections[i].class = "SMTP_SSL" /\ sender.connections[i].starttls)

\* C27, its case: a sender asked for both modes has sent a mail over its two
\* connections
C27_Witness ==
    /\ sender.requested.use_ssl
    /\ sender.requested.use_tls
    /\ sender.ret = "True"
    /\ Len(sender.connections) = 2

\* the ids of the enabled tasks of the configuration
EnabledIds == {id \in TaskIds : gui.enabled[id]}

\* C28: the engine schedules only enabled tasks: once the App has started the
\* scheduler (the stop and start of an enable or disable included), the ids of
\* the live jobs are the ids of the enabled tasks, and no disabled task has a
\* live job.
C28_LiveJobsAreTheEnabledTasks ==
    (gui.pc = "idle" /\ callerPc = "idle" /\ SchedulerRunning)
        => Range(list_tasks) = EnabledIds

\* the place of a job in schedule.jobs: the order the jobs were inserted in
PlaceOf(j) == CHOOSE i \in 1..Len(schedule_jobs) : schedule_jobs[i] = j

\* the batch holds the due jobs of the collection, by non-decreasing due time
\* and, for equal due times, in insertion order
InDueOrder(batch) ==
    /\ Range(batch) = {j \in Range(schedule_jobs) : heap[j].next_run <= now}
    /\ \A i \in 1..Len(batch), k \in 1..Len(batch) :
          i < k => \/ heap[batch[i]].next_run < heap[batch[k]].next_run
                   \/ /\ heap[batch[i]].next_run = heap[batch[k]].next_run
                      /\ PlaceOf(batch[i]) < PlaceOf(batch[k])

\* C29: the jobs due in one tick are executed one after another in an order
\* the job collection and the clock determine: by non-decreasing due time,
\* jobs of equal due time in insertion order.
C29_DueJobsRunInDueOrder ==
    [][\A t \in Threads :
          /\ (pc[t] = "run_pending" /\ pc'[t] = "executing")
                => InDueOrder(<<cur'[t]>> \o todo'[t])
          /\ (pc[t] = "executing" /\ todo[t] # <<>> /\ <<cur[t], todo[t]>> # <<cur'[t], todo'[t]>>)
                => /\ pc'[t] = "executing"
                   /\ cur'[t] = Head(todo[t])
                   /\ todo'[t] = Tail(todo[t])]_vars

\* C29, its case: of two jobs that fell due together the first inserted has
\* been executed and the second is in execution
C29_Witness ==
    \E t \in Threads :
        /\ pc[t] = "executing"
        /\ todo[t] = <<>>
        /\ Len(schedule_jobs) = 2
        /\ cur[t] = schedule_jobs[2]
        /\ heap[schedule_jobs[2]].next_run = 1
        /\ heap[schedule_jobs[2]].next_run <= now
        /\ heap[schedule_jobs[1]].next_run = now + 1
        /\ heap[schedule_jobs[1]].interval = 1

\* the configuration has every default key, those of the SMTP settings included
HasDefaultKeys(c) == DefaultKeys \subseteq c.keys /\ SmtpSubKeys \subseteq c.smtp_settings.keys

\* load_config after save_config returned the configuration, and a save of
\* what was loaded left the stored content as it was
RoundTrip ==
    /\ config.pc \in {"loaded", "saved again"} => config.loaded = config.c
    /\ config.pc = "saved again" => config.file = config.before

\* C30 as stated: for every configuration that has all default keys,
\* load_config() after save_config(c) equals c, and a save of the loaded
\* configuration leaves the stored content unchanged.
C30_Stated == HasDefaultKeys(config.c) => RoundTrip

\* every task of the configuration carries last_response and last_sent_time
TasksHaveRunFields(c) ==
    \A i \in 1..Len(c.scheduled_tasks) : RunKeys \subseteq c.scheduled_tasks[i].keys

\* C30: for every configuration that has all default keys and whose tasks all
\* carry last_response and last_sent_time, load_config() after save_config(c)
\* equals c and a save of the loaded configuration leaves the stored content
\* unchanged.
C30_RoundTripOfMigratedConfig ==
    (HasDefaultKeys(config.c) /\ TasksHaveRunFields(config.c)) => RoundTrip

\* C30, its case: a configuration with two tasks that have run, a key and
\* direct SSL was saved, loaded and saved again
C30_Witness ==
    /\ config.pc = "saved again"
    /\ HasDefaultKeys(config.c)
    /\ TasksHaveRunFields(config.c)
    /\ Len(config.c.scheduled_tasks) = 2
    /\ config.c.smtp_settings.use_ssl
    /\ config.c.gemini_api_key = "key"

\* the ids of a task list, and a task list no two tasks of which have one id
IdsOf(tasks) == {tasks[i].id : i \in DOMAIN tasks}
PairwiseDistinct(tasks) ==
    \A i, j \in DOMAIN tasks : i # j => tasks[i].id # tasks[j].id

TasksIn(exists, file) ==
    IF exists /\ "scheduled_tasks" \in file.keys THEN Parse(file).scheduled_tasks ELSE <<>>

BeginsExecution(t) ==
    /\ pc'[t] = "executing"
    /\ ~(pc[t] = "executing" /\ cur'[t] = cur[t])

\* C33: a worker that no stop has signalled begins an execution only of a
\* job whose tag is the tag of a job in the schedule: once remove_task(id) has
\* taken the jobs tagged id out of the schedule, no execution of a job tagged
\* id begins until a job with that tag is scheduled again.
C33_NoExecutionAfterRemoval ==
    [][\A t \in Threads :
          (t \notin signalled /\ BeginsExecution(t))
             => \E j \in Range(schedule_jobs') : heap'[j].tag = heap'[cur'[t]].tag]_vars

\* the configuration a last-run update of the task makes of a configuration
AfterLastRun(config_data, task_id, report) ==
    IF FirstWithId(config_data.scheduled_tasks, task_id) = 0 THEN config_data
    ELSE [config_data EXCEPT !.scheduled_tasks =
             LastRun(@, task_id, report.last_response, report.last_sent_time)]

\* C34: when the worker's update_task_last_run_details has written the
\* configuration, the file holds what was stored at the time of the writing
\* (as load_config reads it) with the task's run fields set: nothing the
\* caller stored since the worker loaded the configuration is lost or set back.
C34_LastRunKeepsCallerChanges ==
    (/\ manager.last.op = "update_task_last_run_details"
     /\ manager.last.th = "worker"
     /\ manager.last.ret)
        => manager.file =
              Dump(AfterLastRun(manager.last.fresh, manager.last.task_id,
                                manager.last.task_data))

\* C35: a worker begins an execution of a job only when the time is the
\* job's next_run or later.
C35_NoJobExecutedEarly ==
    [][\A t \in Threads :
          BeginsExecution(t) => now' >= heap'[cur'[t]].next_run]_vars

\* no call of the caller and no shutdown of a worker is under way
Quiescent ==
    /\ callerPc = "idle"
    /\ \A t \in Threads : pc[t] \notin {"clear_schedule", "clear_jobs"}

\* C36: whenever no call of add_task, remove_task, start or stop and no
\* worker shutdown is under way, _jobs and schedule.jobs hold the same jobs.
C36_JobListsAgree == Quiescent => Range(_jobs) = Range(schedule_jobs)

\* C37: the EmailSender of a scheduled task works in the mode the stored SMTP
\* settings select, implicit TLS with use_ssl, else STARTTLS with use_tls, else
\* none, and every connection of its send_email is made in that mode.
C37_ScheduledMailUsesStoredMode ==
    sender.pc # "new" =>
        /\ ModeRequested([use_tls |-> sender.use_tls, use_ssl |-> sender.use_ssl])
              = ModeRequested(sender.stored)
        /\ \A i \in 1..Len(sender.connections) :
              ModeOf(sender.connections[i]) = ModeRequested(sender.stored)

\* C38: DEFAULT_CONFIG has its initial values in every state, whatever file
\* load_config met and whatever its callers changed in the configs it returned.
C38_DefaultConfigNeverModified == manager.defaults = DEFAULT_CONFIG


====
